---- MODULE Spec2Model ----
(***************************************************************************)
(* Model of the rule engine simulator (RuleEngineSimulator.evaluate) and   *)
(* of the visual rule editor's projections between a rule's condition tree *)
(* and its node/edge graph (ruleToFlow, flowToRule, validateFlow,          *)
(* validateFlowStructure, RuleFlow.handleSave).                            *)
(*                                                                         *)
(* JavaScript values are encoded as strings: a string stands for itself,   *)
(* and the values that are not strings are the tags below.                 *)
(***************************************************************************)
EXTENDS Integers, Sequences, FiniteSets, TLC

VARIABLES
    \* RuleEngineSimulator
    rules,            \* this.rules
    input,            \* the input map handed to evaluate
    sortedRules,      \* evaluate: sortedRules
    evaluationSteps,  \* evaluate: evaluationSteps
    matchedRules,     \* evaluate: matchedRules
    evalResult,       \* what evaluate resolved (or rejected) with
    epc,              \* position of the evaluate call
    \* visual rule editor (RuleFlow)
    rule,             \* the rule prop of RuleFlow / the originalRule of flowToRule
    nodes,            \* React Flow nodes
    edges,            \* React Flow edges
    validationResult, \* RuleFlow: validationResult (validateFlow)
    saved,            \* what saveRule's flowToRule produced
    fpc,              \* position of the editor
    \* rules configuration page (VersionHistory, RuleVisualEditor)
    rulesConfig,      \* the rules configuration being edited
    structureResult,  \* what validateRuleStructure returned
    deployed,         \* the rules handed to genesysService.deployRules
    edits,            \* how many times the operator changed the list of rules
    ppc,              \* position of the page
    \* RuleEngineSimulator.evaluateOperator, case 'matchesPattern'
    actualValue,      \* the actual value
    pattern,          \* the expected value, a pattern
    matched,          \* what the case did and returned
    opc,              \* position of the call
    \* ruleToFlow (module state) and the graphs it returned
    nodeIdCounter,    \* let nodeIdCounter
    projections,      \* the calls of ruleToFlow made so far, with what they returned
    reopened,         \* the graph shown when the saved rule is opened again
    nextNodeId,       \* RuleFlow: nextNodeId
    flowEdits,        \* how many times the operator changed the graph
    \* evaluate calls in flight on one RuleEngineSimulator
    calls,            \* per call: its input, its locals and where it stands
    \* the operator vocabulary of the editor and of the engine
    operatorCheck,    \* one operator handed to evaluateOperator and to validateFlow
    \* useHistory, and RuleFlow's use of it
    history,          \* useHistory: history
    currentIndex,     \* useHistory: currentIndex
    isInternalUpdate, \* useHistory: isInternalUpdate.current
    isHistoryUpdate,  \* RuleFlow: isHistoryUpdate
    debounceTimer,    \* RuleFlow: whether the 500 ms timer of the tracking effect is set
    resetTimers,      \* RuleFlow: how many 100 ms timers of handleUndo/handleRedo are set
    unrecorded,       \* whether the operator changed the graph since the last pushState
    lastStep,         \* the last thing that happened to the history
    \* createAuthenticatedAxios (module state and the requests of an instance)
    isRefreshing,     \* let isRefreshing
    failedQueue,      \* let failedQueue: the requests whose promises wait in it
    requests,         \* per request: where it stands, its _retry flag, its header
    token,            \* what tokenManager.getToken() returns
    authStep,         \* the last refresh that settled, and the queue it processed
    \* GenesysService: the versions of the rules in the data table
    dataTable,        \* the rows of the data table, by key
    lastCall          \* the last call of the service that finished

vars == <<rules, input, sortedRules, evaluationSteps, matchedRules, evalResult, epc,
          rule, nodes, edges, validationResult, saved, fpc,
          rulesConfig, structureResult, deployed, edits, ppc,
          actualValue, pattern, matched, opc,
          nodeIdCounter, projections, reopened, nextNodeId, flowEdits,
          calls, operatorCheck,
          history, currentIndex, isInternalUpdate, isHistoryUpdate, debounceTimer,
          resetTimers, unrecorded, lastStep,
          isRefreshing, failedQueue, requests, token, authStep,
          dataTable, lastCall>>

engineVars == <<rules, input, sortedRules, evaluationSteps, matchedRules, evalResult, epc>>
flowVars == <<rule, nodes, edges, validationResult, saved, fpc>>
pageVars == <<rulesConfig, structureResult, deployed, edits, ppc>>
opVars == <<actualValue, pattern, matched, opc>>
callVars == <<projections, reopened, nextNodeId, flowEdits>>

historyVars == <<history, currentIndex, isInternalUpdate, isHistoryUpdate, debounceTimer,
                 resetTimers, unrecorded, lastStep>>
authVars == <<isRefreshing, failedQueue, requests, token, authStep>>
versionVars == <<dataTable, lastCall>>
newerVars == <<operatorCheck, historyVars, authVars, versionVars>>
laterVars == <<calls, newerVars>>
earlierVars == <<flowVars, pageVars, opVars, nodeIdCounter, callVars>>
nonCallsVars == <<earlierVars, newerVars>>
programVars == <<engineVars, earlierVars, calls>>
nonOperatorVars == <<programVars, historyVars, authVars, versionVars>>
nonAuthVars == <<programVars, operatorCheck, historyVars, versionVars>>
nonVersionVars == <<programVars, operatorCheck, historyVars, authVars>>
\* what the history and the graph on display leave alone
nonHistoryVars == <<engineVars, rule, edges, validationResult, saved, fpc, pageVars, opVars,
                    nodeIdCounter, callVars, calls, operatorCheck, authVars, versionVars>>

nonEngineVars == <<flowVars, pageVars, opVars, nodeIdCounter, callVars, laterVars>>
nonFlowVars == <<engineVars, pageVars, opVars, nodeIdCounter, callVars, laterVars>>
nonPageVars == <<engineVars, flowVars, opVars, nodeIdCounter, callVars, laterVars>>
nonOpVars == <<engineVars, flowVars, pageVars, nodeIdCounter, callVars, laterVars>>
nonEditorVars == <<engineVars, pageVars, opVars, laterVars>>

-----------------------------------------------------------------------------
(* JavaScript values *)

UNDEF == "<undefined>"
JSNULL == "<null>"
JSFALSE == "<false>"
JSTRUE == "<true>"
JSZERO == "<0>"
JSONE == "<1>"

\* ToBoolean
Truthy(v) == v \notin {UNDEF, JSNULL, JSFALSE, JSZERO, ""}

\* a || b
OrElse(a, b) == IF Truthy(a) THEN a ELSE b

JSBool(b) == IF b THEN JSTRUE ELSE JSFALSE

-----------------------------------------------------------------------------
(* RuleCondition: an object with the optional keys all, any, not, fact,   *)
(* operator, value, params, condition.  `shape` holds which of all / any  *)
(* / not are present; a scalar key that is absent is UNDEF.  NullCond is  *)
(* a null entry of an all / any array.                                     *)

NoParams == [present |-> FALSE, key |-> UNDEF]
KeyParams(k) == [present |-> TRUE, key |-> k]

Cond(sh, a, y, n, f, op, v, p, c) ==
    [shape |-> sh, all |-> a, any |-> y, not |-> n,
     fact |-> f, operator |-> op, value |-> v, params |-> p, condition |-> c]

AllOf(kids) == Cond({"all"}, kids, <<>>, <<>>, UNDEF, UNDEF, UNDEF, NoParams, UNDEF)
AnyOf(kids) == Cond({"any"}, <<>>, kids, <<>>, UNDEF, UNDEF, UNDEF, NoParams, UNDEF)
NotOf(kid) == Cond({"not"}, <<>>, <<>>, <<kid>>, UNDEF, UNDEF, UNDEF, NoParams, UNDEF)
Fact(f, op, v) == Cond({}, <<>>, <<>>, <<>>, f, op, v, NoParams, UNDEF)
FactP(f, k, op, v) == Cond({}, <<>>, <<>>, <<>>, f, op, v, KeyParams(k), UNDEF)
Ref(name) == Cond({}, <<>>, <<>>, <<>>, UNDEF, UNDEF, UNDEF, NoParams, name)
NullCond == Cond({"null"}, <<>>, <<>>, <<>>, UNDEF, UNDEF, UNDEF, NoParams, UNDEF)

IsNull(c) == "null" \in c.shape
\* condition.all && Array.isArray(condition.all)
HasAll(c) == "all" \in c.shape
HasAny(c) == "any" \in c.shape
\* condition.not is an object (a null value is falsy)
HasNot(c) == "not" \in c.shape /\ "null" \notin c.not[1].shape

\* Rule
NoLayout == [nodes |-> <<>>]

MkRule(n, p, dd, c, dest) ==
    [name |-> n, description |-> UNDEF, priority |-> p, defaultDestination |-> dd,
     conditions |-> c,
     event |-> [type |-> "route_determined",
                params |-> [destination |-> dest, priority |-> UNDEF, reason |-> UNDEF]],
     layout |-> NoLayout]

NoRule == MkRule("", 0, "", NullCond, "")

-----------------------------------------------------------------------------
(* RuleEngineSimulator *)

\* The keys an input map may hold; a key mapped to UNDEF is absent.
Keys == {"a", "b"}

\* input[key]
Lookup(inp, key) == IF key \in DOMAIN inp THEN inp[key] ELSE UNDEF

\* registerDynamicFacts: the registered names
DynamicFactNames == {"isBusinessHours", "hasKey", "keyCount", "currentTimestamp", "currentHour"}

\* registerDynamicFacts: hasKey is input.hasOwnProperty(params.key)
hasKey(params, inp) == JSBool(Lookup(inp, params.key) # UNDEF)

\* evaluateOperator, for the operators on scalars; any other operator name
\* takes the default branch
evaluateOperator(actual, operator, expected) ==
    CASE operator = "equal" -> actual = expected
      [] operator = "notEqual" -> actual # expected
      [] operator = "exists" -> actual \notin {UNDEF, JSNULL}
      [] operator = "doesNotExist" -> actual \in {UNDEF, JSNULL}
      [] OTHER -> FALSE

\* a JavaScript number
JSNumber(n) == "<" \o ToString(n) \o ">"

\* registerDynamicFacts: keyCount is Object.keys(input).length
keyCount(params, inp) == JSNumber(Cardinality({k \in DOMAIN inp : inp[k] # UNDEF}))

\* registerDynamicFacts: the facts read off the clock, at an instant within
\* business hours
ClockFact(name) ==
    CASE name = "isBusinessHours" -> JSTRUE
      [] name = "currentHour" -> "<hour>"
      [] OTHER -> "<timestamp>"

\* this.dynamicFacts.get(name)(params, input)
DynamicFact(name, params, inp) ==
    CASE name = "hasKey" -> hasKey(params, inp)
      [] name = "keyCount" -> keyCount(params, inp)
      [] OTHER -> ClockFact(name)

\* the direct lookup tried before the dynamic facts
ResolveFactDirectFirst(condition, inp) ==
    IF condition.fact = "inputValue" /\ Truthy(condition.params.key)
    THEN Lookup(inp, condition.params.key)
    ELSE IF Lookup(inp, condition.fact) # UNDEF
    THEN Lookup(inp, condition.fact)
    ELSE IF condition.fact \in DynamicFactNames
    THEN DynamicFact(condition.fact, condition.params, inp)
    ELSE UNDEF

\* evaluateFactCondition: where the actual value comes from
ResolveFact(condition, inp) ==
    IF condition.fact = "inputValue" /\ Truthy(condition.params.key)
    THEN Lookup(inp, condition.params.key)
    ELSE IF condition.fact \in DynamicFactNames
    THEN DynamicFact(condition.fact, condition.params, inp)
    ELSE Lookup(inp, condition.fact)

\* evaluateFactCondition: the name recorded in the trace
FactName(condition) ==
    IF condition.fact = "inputValue" /\ Truthy(condition.params.key)
    THEN "inputValue." \o condition.params.key
    ELSE condition.fact

\* The outcome of evaluating a condition: its value, whether the promise
\* rejected, and the checks pushed to conditionResults, in push order.
Outcome(p, t, cs) == [passed |-> p, threw |-> t, checks |-> cs]

evaluateFactCondition(condition, inp) ==
    LET actual == ResolveFact(condition, inp)
        expected == condition.value
        passed == evaluateOperator(actual, condition.operator, expected)
    IN  Outcome(passed, FALSE,
                <<[fact |-> FactName(condition), operator |-> condition.operator,
                   expected |-> expected,
                   actual |-> IF actual # UNDEF THEN actual ELSE "undefined",
                   passed |-> passed]>>)

RECURSIVE ConcatChecks(_)
ConcatChecks(outs) ==
    IF outs = <<>> THEN <<>> ELSE Head(outs).checks \o ConcatChecks(Tail(outs))

AnyThrew(outs) == \E i \in 1..Len(outs) : outs[i].threw

RECURSIVE evaluateConditions(_, _), evaluateCondition(_, _)

\* the elements up to and including the first one with the deciding value
RECURSIVE UpToFirst(_, _, _)
UpToFirst(cs, inp, deciding) ==
    IF cs = <<>> THEN <<>>
    ELSE LET first == evaluateCondition(Head(cs), inp)
         IN  IF first.passed = deciding /\ ~first.threw THEN <<first>>
             ELSE <<first>> \o UpToFirst(Tail(cs), inp, deciding)

\* evaluateConditions with short-circuit evaluation of all / any
evaluateConditionsShortCircuit(conditions, inp) ==
    IF HasAll(conditions)
    THEN LET results == UpToFirst(conditions.all, inp, FALSE)
         IN  Outcome(\A i \in 1..Len(results) : results[i].passed,
                     AnyThrew(results), ConcatChecks(results))
    ELSE IF HasAny(conditions)
    THEN LET results == UpToFirst(conditions.any, inp, TRUE)
         IN  Outcome(\E i \in 1..Len(results) : results[i].passed,
                     AnyThrew(results), ConcatChecks(results))
    ELSE IF HasNot(conditions)
    THEN LET result == evaluateConditions(conditions.not[1], inp)
         IN  Outcome(~result.passed, result.threw, result.checks)
    ELSE evaluateCondition(conditions, inp)

\* evaluateConditions: the array's map calls evaluateCondition on every
\* element before Promise.all is awaited, so every element is evaluated and
\* pushes its checks whatever the others do; a rejected element rejects the
\* whole.
evaluateConditions(conditions, inp) ==
    IF HasAll(conditions)
    THEN LET results == [i \in 1..Len(conditions.all) |->
                             evaluateCondition(conditions.all[i], inp)]
         IN  Outcome(\A i \in 1..Len(results) : results[i].passed,
                     AnyThrew(results), ConcatChecks(results))
    ELSE IF HasAny(conditions)
    THEN LET results == [i \in 1..Len(conditions.any) |->
                             evaluateCondition(conditions.any[i], inp)]
         IN  Outcome(\E i \in 1..Len(results) : results[i].passed,
                     AnyThrew(results), ConcatChecks(results))
    ELSE IF HasNot(conditions)
    THEN LET result == evaluateConditions(conditions.not[1], inp)
         IN  Outcome(~result.passed, result.threw, result.checks)
    ELSE evaluateCondition(conditions, inp)

\* evaluateCondition: reading a key of a null entry throws
evaluateCondition(condition, inp) ==
    IF IsNull(condition) THEN Outcome(FALSE, TRUE, <<>>)
    ELSE IF HasAll(condition) \/ HasAny(condition) \/ HasNot(condition)
    THEN evaluateConditions(condition, inp)
    ELSE IF Truthy(condition.condition) THEN Outcome(FALSE, FALSE, <<>>)
    ELSE IF Truthy(condition.fact) THEN evaluateFactCondition(condition, inp)
    ELSE Outcome(FALSE, FALSE, <<>>)

\* evaluateRule without its try / catch
evaluateRuleNoCatch(r, inp) ==
    LET out == IF IsNull(r.conditions) THEN Outcome(FALSE, FALSE, <<>>)
               ELSE evaluateConditions(r.conditions, inp)
    IN  [rejected |-> out.threw,
         value |-> [ruleName |-> r.name, passed |-> out.passed, conditions |-> out.checks]]

\* evaluateRule: what awaiting it gives.  A rejection of evaluateConditions
\* is caught and the rule does not pass; nothing else in it can throw.
evaluateRule(r, inp) ==
    LET out == IF IsNull(r.conditions) THEN Outcome(FALSE, FALSE, <<>>)
               ELSE evaluateConditions(r.conditions, inp)
    IN  [rejected |-> FALSE,
         value |-> [ruleName |-> r.name,
                    passed |-> IF out.threw THEN FALSE ELSE out.passed,
                    conditions |-> out.checks]]

\* evaluate: the comparator's key (a priority that is no number counts as 0;
\* every priority of the model is a number)
PriorityOf(r) == r.priority

\* Array.prototype.sort is stable: an element goes before the first element
\* the comparator puts strictly after it
\* an unstable insertion: before the elements of equal priority too
RECURSIVE InsertBeforeEqual(_, _)
InsertBeforeEqual(sorted, r) ==
    IF sorted = <<>> THEN <<r>>
    ELSE IF PriorityOf(r) - PriorityOf(Head(sorted)) >= 0
    THEN <<r>> \o sorted
    ELSE <<Head(sorted)>> \o InsertBeforeEqual(Tail(sorted), r)

RECURSIVE InsertStable(_, _)
InsertStable(sorted, r) ==
    IF sorted = <<>> THEN <<r>>
    ELSE IF PriorityOf(r) - PriorityOf(Head(sorted)) > 0
    THEN <<r>> \o sorted
    ELSE <<Head(sorted)>> \o InsertStable(Tail(sorted), r)

RECURSIVE SortFrom(_, _)
SortFrom(sorted, rest) ==
    IF rest = <<>> THEN sorted
    ELSE SortFrom(InsertStable(sorted, Head(rest)), Tail(rest))

\* evaluate: [...this.rules].sort((a, b) => priorityB - priorityA)
SortRules(rs) == SortFrom(<<>>, rs)

\* the rule's default destination taken first
MatchDestinationDefaultFirst(r) ==
    OrElse(r.defaultDestination, OrElse(r.event.params.destination, "Unknown"))

\* evaluate: the destination of a matching rule
MatchDestination(r) ==
    OrElse(r.event.params.destination, OrElse(r.defaultDestination, "Unknown"))

\* the default of the first rule in sorted order
FallbackOfFirst(sorted) ==
    IF sorted = <<>> THEN "Unknown"
    ELSE OrElse(sorted[1].defaultDestination, "Unknown")

\* evaluate: the destination when no rule matched
FallbackDestination(sorted) ==
    IF sorted = <<>> THEN "Unknown"
    ELSE OrElse(sorted[Len(sorted)].defaultDestination, "Unknown")

NoResult == [status |-> "none", destination |-> "", matchedRules |-> <<>>]

\* evaluate: entry, up to the loop
EvaluateStart ==
    /\ epc = "idle"
    /\ sortedRules' = SortRules(rules)
    /\ epc' = "loop"
    /\ UNCHANGED <<rules, input, evaluationSteps, matchedRules, evalResult>>
    /\ UNCHANGED nonEngineVars

\* evaluate: one iteration of the loop over sortedRules
EvaluateNextRule ==
    /\ epc = "loop"
    /\ Len(evaluationSteps) < Len(sortedRules)
    /\ LET r == sortedRules[Len(evaluationSteps) + 1]
            awaited == evaluateRule(r, input)
            evaluation == awaited.value
       IN  IF awaited.rejected
           THEN /\ evalResult' = [status |-> "rejected", destination |-> "",
                                  matchedRules |-> <<>>]
                /\ epc' = "done"
                /\ UNCHANGED <<evaluationSteps, matchedRules>>
           ELSE /\ evaluationSteps' = Append(evaluationSteps, evaluation)
                /\ IF evaluation.passed
                   THEN /\ matchedRules' = Append(matchedRules, r.name)
                        /\ evalResult' = [status |-> "returned",
                                          destination |-> MatchDestination(r),
                                          matchedRules |-> Append(matchedRules, r.name)]
                        /\ epc' = "done"
                   ELSE UNCHANGED <<matchedRules, evalResult, epc>>
    /\ UNCHANGED <<rules, input, sortedRules>>
    /\ UNCHANGED nonEngineVars

\* evaluate: after the loop, no rule matched
EvaluateFallback ==
    /\ epc = "loop"
    /\ Len(evaluationSteps) = Len(sortedRules)
    /\ evalResult' = [status |-> "returned",
                      destination |-> FallbackDestination(sortedRules),
                      matchedRules |-> <<>>]
    /\ epc' = "done"
    /\ UNCHANGED <<rules, input, sortedRules, evaluationSteps, matchedRules>>
    /\ UNCHANGED nonEngineVars

-----------------------------------------------------------------------------
(* Two evaluate calls on one RuleEngineSimulator.  A call runs from one   *)
(* await of evaluateRule to the next without the other call running in    *)
(* between; its locals are the fields of calls[c].                         *)

CallIds == {1, 2}

NoCall ==
    [pc |-> "off", input |-> [k \in Keys |-> UNDEF], seen |-> <<>>,
     sortedRules |-> <<>>, evaluationSteps |-> <<>>, matchedRules |-> <<>>,
     result |-> NoResult]

\* this.rules had the array itself been sorted
SortedInPlace(rs) == SortRules(rs)

\* this.rules after `[...this.rules].sort(...)`: only the copy is sorted
RulesAfterSort(rs) == rs

NoSingleCall == UNCHANGED <<input, sortedRules, evaluationSteps, matchedRules, evalResult, epc>>

\* evaluate: entry, up to the first await
CallStart(c) ==
    /\ calls[c].pc = "idle"
    /\ calls' = [calls EXCEPT ![c].sortedRules = SortRules(rules),
                               ![c].seen = rules,
                               ![c].pc = "loop"]
    /\ rules' = RulesAfterSort(rules)
    /\ NoSingleCall
    /\ UNCHANGED nonCallsVars

\* evaluate: one iteration of the loop, from the await to the next one
CallNextRule(c) ==
    /\ calls[c].pc = "loop"
    /\ Len(calls[c].evaluationSteps) < Len(calls[c].sortedRules)
    /\ LET self == calls[c]
           r == self.sortedRules[Len(self.evaluationSteps) + 1]
           evaluation == evaluateRule(r, self.input).value
       IN  calls' =
             IF evaluation.passed
             THEN [calls EXCEPT ![c].evaluationSteps = Append(@, evaluation),
                                ![c].matchedRules = Append(@, r.name),
                                ![c].result = [status |-> "returned",
                                               destination |-> MatchDestination(r),
                                               matchedRules |-> Append(self.matchedRules, r.name)],
                                ![c].pc = "done"]
             ELSE [calls EXCEPT ![c].evaluationSteps = Append(@, evaluation)]
    /\ UNCHANGED rules
    /\ NoSingleCall
    /\ UNCHANGED nonCallsVars

\* evaluate: after the loop, no rule matched
CallFallback(c) ==
    /\ calls[c].pc = "loop"
    /\ Len(calls[c].evaluationSteps) = Len(calls[c].sortedRules)
    /\ calls' = [calls EXCEPT ![c].result = [status |-> "returned",
                                             destination |-> FallbackDestination(calls[c].sortedRules),
                                             matchedRules |-> <<>>],
                               ![c].pc = "done"]
    /\ UNCHANGED rules
    /\ NoSingleCall
    /\ UNCHANGED nonCallsVars

-----------------------------------------------------------------------------
(* React Flow nodes and edges *)

HeaderId == "rule-header"
EventId == "event-node"

NoData ==
    [type |-> UNDEF, parentId |-> UNDEF,
     fact |-> UNDEF, operator |-> UNDEF, value |-> UNDEF, params |-> NoParams,
     name |-> UNDEF, priority |-> 0, description |-> UNDEF, defaultDestination |-> UNDEF,
     destination |-> UNDEF, eventPriority |-> UNDEF, reason |-> UNDEF]

Node(id, type, position, data) ==
    [id |-> id, type |-> type, position |-> position, data |-> data]

Edge(source, target) ==
    [id |-> source \o "-" \o target, source |-> source, target |-> target]

\* nodes.find(n => n.id === id): the index of the first such node, 0 if none
RECURSIVE FindFrom(_, _, _)
FindFrom(ns, id, i) ==
    IF i > Len(ns) THEN 0
    ELSE IF ns[i].id = id THEN i
    ELSE FindFrom(ns, id, i + 1)

FindNode(ns, id) == FindFrom(ns, id, 1)

\* nodes.find(n => n.type === type)
RECURSIVE FindTypeFrom(_, _, _)
FindTypeFrom(ns, type, i) ==
    IF i > Len(ns) THEN 0
    ELSE IF ns[i].type = type THEN i
    ELSE FindTypeFrom(ns, type, i + 1)

FindType(ns, type) == FindTypeFrom(ns, type, 1)

-----------------------------------------------------------------------------
(* ruleToFlow *)

centerX == 400
nodeWidth == 280
nodeHeight == 120
minHorizontalSpacing == nodeWidth + 50
verticalSpacing == nodeHeight + 80

calculatePosition(level, index, total, nodeType) ==
    CASE nodeType = "header" -> [x |-> centerX - 140, y |-> 50]
      [] nodeType = "event" -> [x |-> centerX - 140, y |-> 200 + (level * verticalSpacing)]
      [] OTHER ->
           LET conditionY == 200 + (level * verticalSpacing)
               totalWidth == (total - 1) * minHorizontalSpacing
               startX == centerX - 140 - (totalWidth \div 2)
           IN  IF total = 1 THEN [x |-> centerX - 140, y |-> conditionY]
               ELSE [x |-> startX + (index * minHorizontalSpacing), y |-> conditionY]

\* rule.layout?.nodes?.[nodeId] || computed
PositionOf(r, nodeId, computed) ==
    IF nodeId \in DOMAIN r.layout.nodes THEN r.layout.nodes[nodeId] ELSE computed

\* generateNodeId
generateNodeId(counter) == "node-" \o ToString(counter)

\* The arrays and the counter processCondition works on; threw: a null
\* condition was dereferenced.
Flow(ns, es, counter, threw) ==
    [nodes |-> ns, edges |-> es, nodeIdCounter |-> counter, threw |-> threw]

\* processCondition: the edge to the parent
ParentEdge(parentId, nodeId) ==
    IF Truthy(parentId) THEN <<Edge(parentId, nodeId)>> ELSE <<>>

\* processCondition: the data of a fact node
FactData(condition, parentId) ==
    [NoData EXCEPT !.fact = OrElse(condition.fact, "condition"),
                   !.operator = OrElse(condition.operator, "reference"),
                   !.value = OrElse(condition.value, condition.condition),
                   !.params = condition.params,
                   !.parentId = parentId]

RECURSIVE processCondition(_, _, _, _, _, _, _), processChildren(_, _, _, _, _, _)

processCondition(r, condition, parentId, level, index, total, st) ==
    IF st.threw THEN st
    ELSE IF IsNull(condition) THEN [st EXCEPT !.threw = TRUE]
    ELSE
    LET nodeId == generateNodeId(st.nodeIdCounter)
        position == PositionOf(r, nodeId, calculatePosition(level, index, total, "condition"))
        st1 == [st EXCEPT !.nodeIdCounter = @ + 1]
    IN  IF "all" \in condition.shape \/ "any" \in condition.shape \/ HasNot(condition)
        THEN LET type == IF "all" \in condition.shape THEN "all"
                         ELSE IF "any" \in condition.shape THEN "any" ELSE "not"
                 childConditions == IF "all" \in condition.shape THEN condition.all
                                    ELSE IF "any" \in condition.shape THEN condition.any
                                    ELSE condition.not
                 logicalNode == Node(nodeId, "logicalOperator", position,
                                     [NoData EXCEPT !.type = type, !.parentId = parentId])
                 st2 == [st1 EXCEPT !.nodes = Append(@, logicalNode),
                                    !.edges = @ \o ParentEdge(parentId, nodeId)]
             IN  processChildren(r, childConditions, nodeId, level + 1, 1, st2)
        ELSE IF Truthy(condition.fact) \/ Truthy(condition.condition)
        THEN [st1 EXCEPT !.nodes = Append(@, Node(nodeId, "factCondition", position,
                                                   FactData(condition, parentId))),
                         !.edges = @ \o ParentEdge(parentId, nodeId)]
        ELSE st1

\* childConditions.forEach((childCondition, childIndex) => processCondition(...)),
\* from the i-th child on
processChildren(r, childConditions, nodeId, level, i, st) ==
    IF i > Len(childConditions) THEN st
    ELSE processChildren(r, childConditions, nodeId, level, i + 1,
             processCondition(r, childConditions[i], nodeId, level, i - 1,
                              Len(childConditions), st))

\* the counter left as the call before left it
KeepCounter(counter) == counter

\* nodeIdCounter = 0 at the head of ruleToFlow
ResetCounter(counter) == 0

\* ruleToFlow(rule), called when the module's nodeIdCounter is counter
ruleToFlowCall(r, counter) ==
    LET headerNode == Node(HeaderId, "ruleHeader",
                           PositionOf(r, HeaderId, calculatePosition(0, 0, 1, "header")),
                           [NoData EXCEPT !.name = r.name, !.priority = r.priority,
                                          !.description = r.description,
                                          !.defaultDestination = r.defaultDestination])
        st0 == Flow(<<headerNode>>, <<>>, ResetCounter(counter), FALSE)
        hasConditions == ~IsNull(r.conditions)
        st1 == IF hasConditions
               THEN processCondition(r, r.conditions, HeaderId, 1, 0, 1, st0)
               ELSE st0
        mainConditionId == IF hasConditions THEN generateNodeId(st0.nodeIdCounter)
                           ELSE HeaderId
        eventNode == Node(EventId, "eventNode",
                          PositionOf(r, EventId, calculatePosition(0, 0, 1, "event")),
                          [NoData EXCEPT !.destination = r.event.params.destination,
                                         !.eventPriority = r.event.params.priority,
                                         !.reason = r.event.params.reason])
    IN  [nodes |-> Append(st1.nodes, eventNode),
         edges |-> Append(st1.edges, Edge(mainConditionId, EventId)),
         threw |-> st1.threw,
         nodeIdCounter |-> st1.nodeIdCounter]

\* what ruleToFlow returns
ruleToFlow(r) == ruleToFlowCall(r, 0)

-----------------------------------------------------------------------------
(* autoLayoutNodes *)

\* the state of the breadth-first walk: the queue of {nodeId, level}, the
\* visited ids, and levels[l + 1], the ids of level l in the order met
Walk(queue, visited, levels) == [queue |-> queue, visited |-> visited, levels |-> levels]

\* children.get(nodeId) || []: the targets of the edges out of nodeId, in
\* the order of the edges
RECURSIVE ChildrenFrom(_, _, _)
ChildrenFrom(es, nodeId, i) ==
    IF i > Len(es) THEN <<>>
    ELSE (IF es[i].source = nodeId THEN <<es[i].target>> ELSE <<>>)
         \o ChildrenFrom(es, nodeId, i + 1)

AddToLevel(levels, level, nodeId) ==
    IF level + 1 > Len(levels) THEN Append(levels, <<nodeId>>)
    ELSE [levels EXCEPT ![level + 1] = Append(@, nodeId)]

\* nodeChildren.forEach: the children not visited yet join the queue
Unvisited(ids, visited, level) ==
    LET keep == SelectSeq(ids, LAMBDA id : id \notin visited)
    IN  [i \in 1..Len(keep) |-> [nodeId |-> keep[i], level |-> level]]

\* while (queue.length > 0)
RECURSIVE AssignLevels(_, _, _)
AssignLevels(ns, es, w) ==
    IF w.queue = <<>> THEN w
    ELSE LET nodeId == Head(w.queue).nodeId
             level == Head(w.queue).level
             rest == Tail(w.queue)
             visited == w.visited \cup {nodeId}
         IN  IF nodeId \in w.visited
             THEN AssignLevels(ns, es, Walk(rest, w.visited, w.levels))
             ELSE IF FindNode(ns, nodeId) # 0 /\ ns[FindNode(ns, nodeId)].type = "eventNode"
             THEN AssignLevels(ns, es, Walk(rest, visited, w.levels))
             ELSE AssignLevels(ns, es,
                      Walk(rest \o Unvisited(ChildrenFrom(es, nodeId, 1), visited, level + 1),
                           visited, AddToLevel(w.levels, level, nodeId)))

\* the place of an id in a level, 0 if it is not there
RECURSIVE IndexIn(_, _, _)
IndexIn(ids, id, i) ==
    IF i > Len(ids) THEN 0
    ELSE IF ids[i] = id THEN i
    ELSE IndexIn(ids, id, i + 1)

\* the position of disconnected nodes
Disconnected ==
    [x |-> calculatePosition(0, 0, 1, "condition").x + 500,
     y |-> calculatePosition(0, 0, 1, "condition").y]

autoLayoutNodes(ns, es) ==
    LET header == FindType(ns, "ruleHeader")
        event == FindType(ns, "eventNode")
        w == AssignLevels(ns, es,
                 Walk(<<[nodeId |-> ns[header].id, level |-> 0]>>, {}, <<>>))
        levels == w.levels
        maxLevel == Len(levels) - 1
        InLevel(i) == {l \in 1..Len(levels) : IndexIn(levels[l], ns[i].id, 1) # 0}
        Placed(i) ==
            IF i = event
            THEN calculatePosition(maxLevel + 1, 0, 1, "event")
            ELSE IF ns[i].id \notin w.visited /\ ns[i].type # "eventNode"
            THEN Disconnected
            ELSE IF FindNode(ns, ns[i].id) = i /\ InLevel(i) # {}
            THEN LET l == CHOOSE l \in InLevel(i) : TRUE
                 IN  calculatePosition(l - 1, IndexIn(levels[l], ns[i].id, 1) - 1,
                                       Len(levels[l]),
                                       IF ns[i].type = "ruleHeader" THEN "header"
                                       ELSE "condition")
            ELSE ns[i].position
    IN  IF header = 0 THEN ns
        ELSE [i \in 1..Len(ns) |-> [ns[i] EXCEPT !.position = Placed(i)]]

-----------------------------------------------------------------------------
(* flowToRule *)

\* buildAdjacencyMap(edges).get(id) || []
RECURSIVE AdjacencyFrom(_, _, _)
AdjacencyFrom(es, id, i) ==
    IF i > Len(es) THEN <<>>
    ELSE IF es[i].source = id THEN <<es[i].target>> \o AdjacencyFrom(es, id, i + 1)
    ELSE AdjacencyFrom(es, id, i + 1)

Adjacency(es, id) == AdjacencyFrom(es, id, 1)

\* the node exists and is not the event node
IsConditionTarget(ns, id) ==
    FindNode(ns, id) # 0 /\ ns[FindNode(ns, id)].type # "eventNode"

RECURSIVE FilterTargets(_, _)
FilterTargets(ns, ids) ==
    IF ids = <<>> THEN <<>>
    ELSE IF IsConditionTarget(ns, Head(ids))
    THEN <<Head(ids)>> \o FilterTargets(ns, Tail(ids))
    ELSE FilterTargets(ns, Tail(ids))

\* What buildCondition gives: a condition ("ok"), null ("null"), or a
\* RangeError because the recursion never ends ("overflow").
Built(status, c) == [status |-> status, cond |-> c]

\* buildCondition on a factCondition node
BuildFact(data) ==
    IF data.fact = "condition" /\ data.operator = "reference"
    THEN Ref(data.value)
    ELSE Cond({}, <<>>, <<>>, <<>>, data.fact, data.operator, data.value,
              IF data.params.present /\ data.params.key # UNDEF THEN data.params
              ELSE NoParams,
              UNDEF)

\* the conditions of the results that are not null, in order
RECURSIVE NonNull(_)
NonNull(results) ==
    IF results = <<>> THEN <<>>
    ELSE IF Head(results).status = "ok"
    THEN <<Head(results).cond>> \o NonNull(Tail(results))
    ELSE NonNull(Tail(results))

\* buildCondition on a logicalOperator node, from its children's results
\* the logical branch without the test for an empty child list
BuildLogicalKeepEmpty(type, results) ==
    LET childConditions == NonNull(results)
    IN  IF \E i \in 1..Len(results) : results[i].status = "overflow"
        THEN Built("overflow", NullCond)
        ELSE IF type = "all" THEN Built("ok", AllOf(childConditions))
        ELSE IF type = "any" THEN Built("ok", AnyOf(childConditions))
        ELSE IF type = "not" /\ Len(childConditions) > 0
        THEN Built("ok", NotOf(childConditions[1]))
        ELSE Built("null", NullCond)

BuildLogical(type, results) ==
    LET childConditions == NonNull(results)
    IN  IF \E i \in 1..Len(results) : results[i].status = "overflow"
        THEN Built("overflow", NullCond)
        ELSE IF Len(childConditions) = 0 THEN Built("null", NullCond)
        ELSE IF type = "all" THEN Built("ok", AllOf(childConditions))
        ELSE IF type = "any" THEN Built("ok", AnyOf(childConditions))
        ELSE IF type = "not" THEN Built("ok", NotOf(childConditions[1]))
        ELSE Built("null", NullCond)

\* buildCondition(nodeId), depth calls deep.  The calls on the stack are
\* calls on nodes along one path of the graph: once there are more of them
\* than nodes, a node repeats, the recursion has no end and the engine
\* raises RangeError.
RECURSIVE buildCondition(_, _, _, _)
buildCondition(ns, es, nodeId, depth) ==
    IF depth > Len(ns) THEN Built("overflow", NullCond)
    ELSE IF FindNode(ns, nodeId) = 0 THEN Built("null", NullCond)
    ELSE LET node == ns[FindNode(ns, nodeId)]
         IN  IF node.type = "eventNode" THEN Built("null", NullCond)
             ELSE IF node.type = "factCondition" THEN Built("ok", BuildFact(node.data))
             ELSE IF node.type = "logicalOperator"
             THEN LET childIds == FilterTargets(ns, Adjacency(es, nodeId))
                      results == [i \in 1..Len(childIds) |->
                                     buildCondition(ns, es, childIds[i], depth + 1)]
                  IN  BuildLogical(node.data.type, results)
             ELSE Built("null", NullCond)

Thrown(msg) == [status |-> "error", error |-> msg, rule |-> NoRule]
Returned(r) == [status |-> "ok", error |-> "", rule |-> r]

\* flowToRule: the layout it stores
SavedLayout(ns) ==
    [nodes |-> [id \in {ns[i].id : i \in 1..Len(ns)} |->
                   ns[CHOOSE i \in 1..Len(ns) :
                         ns[i].id = id /\ \A j \in (i + 1)..Len(ns) : ns[j].id # id].position]]

flowToRule(ns, es, originalRule) ==
    LET h == FindType(ns, "ruleHeader")
        e == FindType(ns, "eventNode")
        rootConditionIds == FilterTargets(ns, Adjacency(es, HeaderId))
    IN  IF h = 0 \/ e = 0 THEN Thrown("Invalid flow structure: missing required nodes")
        ELSE IF rootConditionIds = <<>> THEN Thrown("No root condition found")
        ELSE LET conditions == buildCondition(ns, es, rootConditionIds[1], 1)
                 headerData == ns[h].data
                 eventData == ns[e].data
             IN  IF conditions.status = "overflow"
                 THEN Thrown("Maximum call stack size exceeded")
                 ELSE IF conditions.status = "null"
                 THEN Thrown("Failed to build conditions from flow")
                 ELSE Returned(
                     [name |-> OrElse(headerData.name, originalRule.name),
                      description |-> headerData.description,
                      priority |-> IF headerData.priority # 0 THEN headerData.priority
                                   ELSE originalRule.priority,
                      defaultDestination |-> OrElse(headerData.defaultDestination,
                                                    originalRule.defaultDestination),
                      conditions |-> conditions.cond,
                      event |-> [type |-> OrElse(originalRule.event.type, "route_determined"),
                                 params |-> [destination |-> eventData.destination,
                                             priority |-> IF Truthy(eventData.eventPriority)
                                                          THEN eventData.eventPriority
                                                          ELSE UNDEF,
                                             reason |-> IF Truthy(eventData.reason)
                                                        THEN eventData.reason ELSE UNDEF]],
                      layout |-> SavedLayout(ns)])

-----------------------------------------------------------------------------
(* validateFlow *)

AVAILABLE_OPERATORS ==
    {"equal", "notEqual", "in", "notIn", "contains", "doesNotContain", "greaterThan",
     "greaterThanInclusive", "lessThan", "lessThanInclusive", "containsAny",
     "matchesPattern", "startsWith", "endsWith"}

CircularError == "Rule contains circular dependencies"

\* connections.get(id).incoming
RECURSIVE IncomingFrom(_, _, _)
IncomingFrom(es, id, i) ==
    IF i > Len(es) THEN <<>>
    ELSE IF es[i].target = id THEN <<es[i].source>> \o IncomingFrom(es, id, i + 1)
    ELSE IncomingFrom(es, id, i + 1)

Incoming(es, id) == IncomingFrom(es, id, 1)

Msg(cond, text) == IF cond THEN <<text>> ELSE <<>>

\* the errors of one node, the count of a 'not' node's children not looked at
NodeErrorsAnyCount(node, es) ==
    LET outgoing == Adjacency(es, node.id)
        incoming == Incoming(es, node.id)
        data == node.data
    IN  (IF node.type = "logicalOperator" /\ data.type # "not"
         THEN Msg(Len(outgoing) = 0, "Logical operator node must have at least one child")
         ELSE <<>>)
        \o
        (IF node.type = "factCondition"
         THEN Msg(~Truthy(data.fact), "Fact condition is missing fact field")
              \o Msg(~Truthy(data.operator), "Fact condition is missing operator")
              \o Msg(data.fact = "inputValue" /\ ~Truthy(data.params.key),
                     "inputValue fact requires a key parameter")
         ELSE <<>>)
        \o
        (IF node.type = "eventNode"
         THEN Msg(~Truthy(data.destination), "Event node is missing destination")
              \o Msg(Len(incoming) = 0, "Event node must be connected to conditions")
         ELSE <<>>)

\* validateFlow: the errors of one node, in the order pushed
NodeErrors(node, es) ==
    LET outgoing == Adjacency(es, node.id)
        incoming == Incoming(es, node.id)
        data == node.data
    IN  (IF node.type = "logicalOperator"
         THEN Msg(Len(outgoing) = 0, "Logical operator node must have at least one child")
              \o Msg(data.type = "not" /\ Len(outgoing) > 1,
                     "NOT operator can only have one child condition")
         ELSE <<>>)
        \o
        (IF node.type = "factCondition"
         THEN Msg(~Truthy(data.fact), "Fact condition is missing fact field")
              \o Msg(~Truthy(data.operator), "Fact condition is missing operator")
              \o Msg(data.fact = "inputValue" /\ ~Truthy(data.params.key),
                     "inputValue fact requires a key parameter")
         ELSE <<>>)
        \o
        (IF node.type = "eventNode"
         THEN Msg(~Truthy(data.destination), "Event node is missing destination")
              \o Msg(Len(incoming) = 0, "Event node must be connected to conditions")
         ELSE <<>>)

\* validateFlow: the warnings of one node
NodeWarnings(node, es) ==
    LET data == node.data
    IN  Msg(node.type # "ruleHeader" /\ Len(Incoming(es, node.id)) = 0,
            "Node \"" \o node.id \o "\" has no incoming connections")
        \o
        (IF node.type = "factCondition"
         THEN Msg(Truthy(data.operator) /\ data.operator \notin AVAILABLE_OPERATORS,
                  "Unknown operator \"" \o data.operator \o "\"")
              \o Msg(data.value = UNDEF \/ data.value = "", "Fact condition is missing value")
         ELSE <<>>)

RECURSIVE ConcatMap(_, _, _)
ConcatMap(Op(_, _), ns, es) ==
    IF ns = <<>> THEN <<>> ELSE Op(Head(ns), es) \o ConcatMap(Op, Tail(ns), es)

\* The sets hasCycle works on, and its return value.
Dfs(visited, recursionStack, found) ==
    [visited |-> visited, recursionStack |-> recursionStack, found |-> found]

RECURSIVE hasCycle(_, _, _, _), hasCycleChildren(_, _, _, _, _)
RECURSIVE hasCycleChildrenVisitedOnly(_, _, _, _, _)

\* the loop without the recursion stack: a visited child counts as a cycle
hasCycleChildrenVisitedOnly(ns, es, outgoing, i, st) ==
    IF i > Len(outgoing) THEN st
    ELSE LET childId == outgoing[i]
         IN  IF childId \notin st.visited
             THEN LET sub == hasCycle(ns, es, childId, st)
                  IN  IF sub.found THEN sub
                      ELSE hasCycleChildrenVisitedOnly(ns, es, outgoing, i + 1, sub)
             ELSE Dfs(st.visited, st.recursionStack, TRUE)

hasCycle(ns, es, nodeId, st) ==
    LET st1 == Dfs(st.visited \cup {nodeId}, st.recursionStack \cup {nodeId}, FALSE)
        outgoing == IF FindNode(ns, nodeId) # 0 THEN Adjacency(es, nodeId) ELSE <<>>
        st2 == hasCycleChildren(ns, es, outgoing, 1, st1)
    IN  IF st2.found THEN st2
        ELSE Dfs(st2.visited, st2.recursionStack \ {nodeId}, FALSE)

\* for (const childId of conn.outgoing), from the i-th child on
hasCycleChildren(ns, es, outgoing, i, st) ==
    IF i > Len(outgoing) THEN st
    ELSE LET childId == outgoing[i]
         IN  IF childId \notin st.visited
             THEN LET sub == hasCycle(ns, es, childId, st)
                  IN  IF sub.found THEN sub
                      ELSE hasCycleChildren(ns, es, outgoing, i + 1, sub)
             ELSE IF childId \in st.recursionStack
             THEN Dfs(st.visited, st.recursionStack, TRUE)
             ELSE hasCycleChildren(ns, es, outgoing, i + 1, st)

IsConditionNode(n) == n.type \in {"logicalOperator", "factCondition"}

validateFlow(ns, es) ==
    LET h == FindType(ns, "ruleHeader")
        e == FindType(ns, "eventNode")
        conditionNodes == SelectSeq(ns, IsConditionNode)
        errors ==
            Msg(h = 0, "Missing rule header node")
            \o Msg(e = 0, "Missing event node")
            \o Msg(Len(conditionNodes) = 0, "Rule must have at least one condition")
            \o ConcatMap(NodeErrors, ns, es)
            \o Msg(h # 0 /\ hasCycle(ns, es, ns[h].id, Dfs({}, {}, FALSE)).found,
                   CircularError)
    IN  [isValid |-> Len(errors) = 0, errors |-> errors,
         warnings |-> ConcatMap(NodeWarnings, ns, es)]

NoValidation == [isValid |-> FALSE, errors |-> <<>>, warnings |-> <<>>]

-----------------------------------------------------------------------------
(* validateFlowStructure *)

\* dfs(nodeId): the ids visited from the ids in `visited`
RECURSIVE Visit(_, _)
Visit(es, visited) ==
    LET more == {es[i].target : i \in {j \in 1..Len(es) : es[j].source \in visited}}
    IN  IF more \subseteq visited THEN visited ELSE Visit(es, visited \cup more)

NotConnected(node, visited) ==
    Msg(node.id \notin visited /\ node.type # "ruleHeader",
        "Node \"" \o node.id \o "\" is not connected to the rule flow")

FactFieldErrors(node, es) ==
    IF node.type = "factCondition"
    THEN Msg(~Truthy(node.data.fact),
             "Fact condition node \"" \o node.id \o "\" is missing fact field")
         \o Msg(~Truthy(node.data.operator),
                "Fact condition node \"" \o node.id \o "\" is missing operator")
    ELSE <<>>

validateFlowStructure(ns, es) ==
    LET hasHeader == FindType(ns, "ruleHeader") # 0
        hasEvent == FindType(ns, "eventNode") # 0
        hasConditions == \E i \in 1..Len(ns) : IsConditionNode(ns[i])
        visited == IF hasHeader THEN Visit(es, {HeaderId}) ELSE {}
    IN  Msg(~hasHeader, "Missing rule header node")
        \o Msg(~hasEvent, "Missing event node")
        \o Msg(~hasConditions, "Rule must have at least one condition")
        \o ConcatMap(NotConnected, ns, visited)
        \o ConcatMap(FactFieldErrors, ns, es)

-----------------------------------------------------------------------------
(* validateRule (run by the parent's handleRuleChange on the saved rule) *)

\* s.trim() === '' for the strings of the model
Blank(s) == s \in {"", " "}

validateRule(r) ==
    LET errors ==
            Msg(~Truthy(r.name) \/ Blank(r.name), "Rule name is required")
            \o Msg(r.priority < 1 \/ r.priority > 999,
                   "Rule priority must be a number between 1 and 999")
            \o Msg(~Truthy(r.defaultDestination) \/ Blank(r.defaultDestination),
                   "Rule default destination is required")
            \o Msg(IsNull(r.conditions), "Rule must have at least one condition")
            \o Msg(~Truthy(r.event.type), "Event type is required")
            \o Msg(~Truthy(r.event.params.destination), "Event destination is required")
    IN  [isValid |-> Len(errors) = 0, errors |-> errors, warnings |-> <<>>]

-----------------------------------------------------------------------------
(* RuleFlow: saving *)

NotSaved == [status |-> "none", error |-> "", rule |-> NoRule, accepted |-> FALSE]

\* saveRule: flowToRule, then onChange (handleRuleChange keeps the rule when
\* validateRule accepts it); an exception is caught and reported
saveRule(ns, es, r) ==
    LET updatedRule == flowToRule(ns, es, r)
    IN  [status |-> updatedRule.status, error |-> updatedRule.error,
         rule |-> updatedRule.rule,
         accepted |-> updatedRule.status = "ok" /\ validateRule(updatedRule.rule).isValid]

\* handleSave
HandleSave ==
    /\ fpc = "editing"
    /\ LET structureErrors == validateFlowStructure(nodes, edges)
           validation == validateFlow(nodes, edges)
       IN  IF Len(structureErrors) > 0
           THEN fpc' = "rejected" /\ saved' = saved
           ELSE IF ~validation.isValid
           THEN fpc' = "modal" /\ saved' = saved
           ELSE /\ saved' = saveRule(nodes, edges, rule)
                /\ fpc' = IF saved'.status = "ok" THEN "saved" ELSE "failed"
    /\ UNCHANGED <<rule, nodes, edges, validationResult>>
    /\ UNCHANGED nonFlowVars

\* the modal's onOk: save anyway
ConfirmSaveAnyway ==
    /\ fpc = "modal"
    /\ saved' = saveRule(nodes, edges, rule)
    /\ fpc' = IF saved'.status = "ok" THEN "saved" ELSE "failed"
    /\ UNCHANGED <<rule, nodes, edges, validationResult>>
    /\ UNCHANGED nonFlowVars

\* the modal dismissed
CancelSave ==
    /\ fpc = "modal"
    /\ fpc' = "editing"
    /\ UNCHANGED <<rule, nodes, edges, validationResult, saved>>
    /\ UNCHANGED nonFlowVars

\* ruleToFlow applied to the rule
Project ==
    /\ fpc = "rule"
    /\ ~ruleToFlowCall(rule, nodeIdCounter).threw
    /\ nodes' = ruleToFlowCall(rule, nodeIdCounter).nodes
    /\ edges' = ruleToFlowCall(rule, nodeIdCounter).edges
    /\ nodeIdCounter' = ruleToFlowCall(rule, nodeIdCounter).nodeIdCounter
    /\ fpc' = "projected"
    /\ UNCHANGED <<rule, validationResult, saved>>
    /\ UNCHANGED <<nonEditorVars, callVars>>

\* flowToRule applied to the graph, with the rule as originalRule
Reconstruct ==
    /\ fpc \in {"projected", "editing"}
    /\ LET updatedRule == flowToRule(nodes, edges, rule)
       IN  saved' = [status |-> updatedRule.status, error |-> updatedRule.error,
                     rule |-> updatedRule.rule, accepted |-> FALSE]
    /\ fpc' = "reconstructed"
    /\ UNCHANGED <<rule, nodes, edges, validationResult>>
    /\ UNCHANGED nonFlowVars

-----------------------------------------------------------------------------
(* Calls of ruleToFlow, one after the other *)

MaxCalls == 3

Projection(r, f) ==
    [rule |-> r, nodes |-> f.nodes, edges |-> f.edges,
     layoutNodes |-> autoLayoutNodes(f.nodes, f.edges)]

\* ruleToFlow(r), then autoLayoutNodes on what it returned
RuleToFlow(r) ==
    /\ Len(projections) < MaxCalls
    /\ LET f == ruleToFlowCall(r, nodeIdCounter)
       IN  /\ ~f.threw
           /\ projections' = Append(projections, Projection(r, f))
           /\ nodeIdCounter' = f.nodeIdCounter
    /\ UNCHANGED <<reopened, nextNodeId, flowEdits>>
    /\ UNCHANGED <<nonEditorVars, flowVars>>

-----------------------------------------------------------------------------
(* Loading a rule into the editor *)

\* rule.layout?.nodes && Object.keys(rule.layout.nodes).length > 0
hasSavedLayout(r) == DOMAIN r.layout.nodes # {}

\* RuleFlow's nodes for a rule: auto-layout only without saved positions
FlowOfRule(r, counter) ==
    LET f == ruleToFlowCall(r, counter)
    IN  [f EXCEPT !.nodes = IF hasSavedLayout(r) THEN f.nodes
                            ELSE autoLayoutNodes(f.nodes, f.edges)]

\* RuleFlow, "Initialize flow from rule"
InitializeFlow ==
    /\ fpc = "rule"
    /\ LET f == FlowOfRule(rule, nodeIdCounter)
       IN  /\ ~f.threw
           /\ nodes' = f.nodes
           /\ edges' = f.edges
           /\ validationResult' = validateFlow(f.nodes, f.edges)
           /\ nodeIdCounter' = f.nodeIdCounter
    /\ fpc' = "initialised"
    /\ UNCHANGED <<rule, saved>>
    /\ UNCHANGED <<nonEditorVars, callVars>>

\* RuleFlow.handleReset, confirmed
handleReset ==
    /\ fpc = "initialised"
    /\ LET f == FlowOfRule(rule, nodeIdCounter)
       IN  /\ ~f.threw
           /\ nodes' = f.nodes
           /\ edges' = f.edges
           /\ nodeIdCounter' = f.nodeIdCounter
    /\ fpc' = "reset"
    /\ UNCHANGED <<rule, validationResult, saved>>
    /\ UNCHANGED <<nonEditorVars, callVars>>

\* useRuleEditor.loadRule(rule)
loadRule ==
    /\ fpc = "rule"
    /\ LET f == ruleToFlowCall(rule, nodeIdCounter)
           layoutNodes == autoLayoutNodes(f.nodes, f.edges)
       IN  /\ ~f.threw
           /\ nodes' = layoutNodes
           /\ edges' = f.edges
           /\ validationResult' = validateFlow(layoutNodes, f.edges)
           /\ nodeIdCounter' = f.nodeIdCounter
    /\ fpc' = "loaded"
    /\ UNCHANGED <<rule, saved>>
    /\ UNCHANGED <<nonEditorVars, callVars>>

-----------------------------------------------------------------------------
(* RuleFlow: editing the graph, and the rule coming back after a save *)

MaxFlowEdits == 3
MaxDrops == 2

\* the ids a session of the model sees, for telling positions apart
SessionIds ==
    <<"event-node", "node-0", "node-1", "node-2", "node-1000", "node-1001", "node-1002">>

\* where the operator drags a node to, and where a new node is dropped
DraggedTo(id) == [x |-> 1000 + 10 * IndexIn(SessionIds, id, 1), y |-> 900]
DroppedAt(id) == [x |-> 1500 + 10 * IndexIn(SessionIds, id, 1), y |-> 950]

Editable == fpc \in {"initialised", "editing"} /\ flowEdits < MaxFlowEdits

\* the handlers re-validate the nodes and edges of their closure
Edited ==
    /\ validationResult' = validateFlow(nodes, edges)
    /\ flowEdits' = flowEdits + 1
    /\ fpc' = "editing"
    /\ UNCHANGED <<rule, saved>>
    /\ UNCHANGED <<nonEditorVars, nodeIdCounter, projections, reopened>>

\* a node dragged (the header is not draggable)
onNodeDrag(i) ==
    /\ Editable
    /\ nodes[i].type # "ruleHeader"
    /\ nodes' = [nodes EXCEPT ![i].position = DraggedTo(nodes[i].id)]
    /\ UNCHANGED <<edges, nextNodeId>>
    /\ Edited

\* the node a palette entry becomes once its properties are filled in
DroppedNode(id, kind) ==
    IF kind = "fact"
    THEN Node(id, "factCondition", DroppedAt(id),
              [NoData EXCEPT !.fact = "c", !.operator = "equal", !.value = "x"])
    ELSE Node(id, "logicalOperator", DroppedAt(id), [NoData EXCEPT !.type = kind])

onDrop(kind) ==
    /\ Editable
    /\ nextNodeId < 1000 + MaxDrops
    /\ nodes' = Append(nodes, DroppedNode(generateNodeId(nextNodeId), kind))
    /\ nextNodeId' = nextNodeId + 1
    /\ UNCHANGED edges
    /\ Edited

\* a condition node deleted, with the edges that touch it
onNodesDelete(i) ==
    /\ Editable
    /\ nodes[i].type \notin {"ruleHeader", "eventNode"}
    /\ nodes' = SelectSeq(nodes, LAMBDA n : n.id # nodes[i].id)
    /\ edges' = SelectSeq(edges, LAMBDA e : e.source # nodes[i].id /\ e.target # nodes[i].id)
    /\ UNCHANGED nextNodeId
    /\ Edited

\* addEdge: a connection that is not there yet
onConnect(i, j) ==
    /\ Editable
    /\ i # j
    /\ nodes[i].type # "eventNode"
    /\ nodes[j].type # "ruleHeader"
    /\ \A k \in 1..Len(edges) :
          ~(edges[k].source = nodes[i].id /\ edges[k].target = nodes[j].id)
    /\ edges' = Append(edges, Edge(nodes[i].id, nodes[j].id))
    /\ UNCHANGED <<nodes, nextNodeId>>
    /\ Edited

\* an edge deleted
onEdgesDelete(k) ==
    /\ Editable
    /\ edges' = [m \in 1..(Len(edges) - 1) |-> IF m < k THEN edges[m] ELSE edges[m + 1]]
    /\ UNCHANGED <<nodes, nextNodeId>>
    /\ Edited

\* handleRuleChange has stored the saved rule and RuleFlow is initialised
\* from it; nodes and edges keep the graph as it was saved
Reopen ==
    /\ fpc = "saved"
    /\ saved.accepted
    /\ LET f == FlowOfRule(saved.rule, nodeIdCounter)
       IN  /\ ~f.threw
           /\ reopened' = [opened |-> TRUE, nodes |-> f.nodes, edges |-> f.edges]
           /\ nodeIdCounter' = f.nodeIdCounter
    /\ fpc' = "reopened"
    /\ UNCHANGED <<rule, nodes, edges, validationResult, saved>>
    /\ UNCHANGED <<nonEditorVars, projections, nextNodeId, flowEdits>>

-----------------------------------------------------------------------------
(* Validation of a rules configuration: validateRuleStructure.  A rules   *)
(* configuration is the record [hasRules, rules]: hasRules says that the  *)
(* key `rules` holds an array, rules is that array.  Rules of the model   *)
(* are objects with a key `event` and a numeric priority.                  *)

Config(rs) == [hasRules |-> TRUE, rules |-> rs]
NoConfig == [hasRules |-> FALSE, rules |-> <<>>]

\* validateConditionStructure(condition, path): the errors, in order
RECURSIVE validateConditionStructure(_, _), validateConditionEach(_, _, _)
validateConditionStructure(condition, path) ==
    IF IsNull(condition) THEN <<path \o ": Invalid condition structure">>
    ELSE IF HasAll(condition) THEN validateConditionEach(condition.all, path \o ".all", 1)
    ELSE IF HasAny(condition) THEN validateConditionEach(condition.any, path \o ".any", 1)
    ELSE IF HasNot(condition) THEN validateConditionStructure(condition.not[1], path \o ".not")
    ELSE IF Truthy(condition.fact)
    THEN Msg(~Truthy(condition.operator), path \o ": Missing operator for fact condition")
         \o Msg(condition.value = UNDEF, path \o ": Missing value for fact condition")
    ELSE Msg(~Truthy(condition.condition),
             path \o ": Invalid condition - must have 'all', 'any', 'not', 'fact', or 'condition'")

\* conds.forEach((cond, idx) => errors.push(...validateConditionStructure(cond, path[idx]))),
\* from the i-th entry on
validateConditionEach(conds, path, i) ==
    IF i > Len(conds) THEN <<>>
    ELSE validateConditionStructure(conds[i], path \o "[" \o ToString(i - 1) \o "]")
         \o validateConditionEach(conds, path, i + 1)

\* validateRuleStructure: the errors of the rule at `index` (from 1)
RuleStructureErrors(r, index) ==
    LET rulePrefix == "Rule " \o ToString(index)
                      \o (IF Truthy(r.name) THEN " (" \o r.name \o ")" ELSE "")
    IN  Msg(~Truthy(r.name), rulePrefix \o ": Missing required field 'name'")
        \o Msg(~Truthy(r.defaultDestination),
               rulePrefix \o ": Missing required field 'defaultDestination'")
        \o (IF IsNull(r.conditions)
            THEN <<rulePrefix \o ": Missing required field 'conditions'">>
            ELSE validateConditionStructure(r.conditions, rulePrefix \o " conditions"))
        \o Msg(~Truthy(r.event.type), rulePrefix \o ": Missing event.type")
        \o Msg(~Truthy(r.event.params.destination),
               rulePrefix \o ": Missing event.params.destination")

RECURSIVE RulesStructureErrors(_, _)
RulesStructureErrors(rs, i) ==
    IF i > Len(rs) THEN <<>>
    ELSE RuleStructureErrors(rs[i], i) \o RulesStructureErrors(rs, i + 1)

StructureResult(errors) == [isValid |-> Len(errors) = 0, errors |-> errors]

validateRuleStructure(config) ==
    IF ~config.hasRules
    THEN StructureResult(<<"Missing or invalid field: rules (must be an array)">>)
    ELSE IF Len(config.rules) = 0
    THEN StructureResult(<<"Rules array cannot be empty - at least one rule is required">>)
    ELSE StructureResult(RulesStructureErrors(config.rules, 1))

NoStructure == [isValid |-> FALSE, errors |-> <<>>]

\* validateRuleStructure(rulesConfig) is called on the configuration
ValidateStructure ==
    /\ ppc = "edited"
    /\ structureResult' = validateRuleStructure(rulesConfig)
    /\ ppc' = "validated"
    /\ UNCHANGED <<rulesConfig, deployed, edits>>
    /\ UNCHANGED nonPageVars

-----------------------------------------------------------------------------
(* The rules page: VisualRuleEditor's operations on the list of rules and *)
(* the deployment of the edited configuration                              *)

\* VersionHistory's validateConditionStructure(condition): boolean
RECURSIVE validateConditionStructureBool(_)
validateConditionStructureBool(condition) ==
    IF IsNull(condition) THEN FALSE
    ELSE IF HasAll(condition) \/ HasAny(condition)
    THEN LET conditions == IF HasAll(condition) THEN condition.all ELSE condition.any
         IN  \A i \in 1..Len(conditions) : validateConditionStructureBool(conditions[i])
    ELSE IF HasNot(condition) THEN validateConditionStructureBool(condition.not[1])
    ELSE IF Truthy(condition.fact)
    THEN Truthy(condition.operator) /\ condition.value # UNDEF
    ELSE FALSE

\* validateSyntax on the JSON text of a configuration
validateSyntax(config) ==
    /\ config.hasRules
    /\ Len(config.rules) > 0
    /\ \A i \in 1..Len(config.rules) :
          LET r == config.rules[i]
          IN  /\ Truthy(r.name)
              /\ Truthy(r.defaultDestination)
              /\ ~IsNull(r.conditions)
              /\ Truthy(r.event.params.destination)
              /\ validateConditionStructureBool(r.conditions)

\* ruleNames.filter((name, index) => ruleNames.indexOf(name) !== index)
duplicates(ruleNames) ==
    SelectSeq([i \in 1..Len(ruleNames) |->
                  IF \E j \in 1..(i - 1) : ruleNames[j] = ruleNames[i]
                  THEN ruleNames[i] ELSE UNDEF],
              LAMBDA n : n # UNDEF)

\* validateRules: the rule fields it checks once the syntax is accepted
RuleFieldsOk(r) ==
    /\ Truthy(r.name)
    /\ r.priority >= 1 /\ r.priority <= 999
    /\ Truthy(r.defaultDestination) /\ ~Blank(r.defaultDestination)
    /\ ~IsNull(r.conditions)
    /\ Truthy(r.event.params.destination)

\* validateRules(): boolean
validateRules(config) ==
    /\ validateSyntax(config)
    /\ \A i \in 1..Len(config.rules) : RuleFieldsOk(config.rules[i])
    /\ LET ruleNames == SelectSeq([i \in 1..Len(config.rules) |-> config.rules[i].name], Truthy)
       IN  Len(duplicates(ruleNames)) = 0

\* the most rules the page's configuration holds
MaxConfigRules == 3

\* the most changes the operator makes to the list of rules
MaxEdits == 4

\* the names an operator types
TypedNames == {"r1", "r2"}

InsertAt(rs, i, r) == SubSeq(rs, 1, i - 1) \o <<r>> \o SubSeq(rs, i, Len(rs))
RemoveAt(rs, i) == SubSeq(rs, 1, i - 1) \o SubSeq(rs, i + 1, Len(rs))

\* the rule CustomTemplates.handleSubmit generates from one key-value pair
TemplateRule(ruleName) ==
    MkRule(ruleName, 50, "D1", AllOf(<<FactP("inputValue", "a", "equal", "x")>>), "Q1")

\* TemplateSelector / CustomTemplates.handleSubmit and
\* VisualRuleEditor.handleCreateRuleFromTemplate
CreateRuleFromTemplate ==
    /\ ppc = "edited"
    /\ Len(rulesConfig.rules) < MaxConfigRules
    /\ \E ruleName \in TypedNames :
          /\ \A i \in 1..Len(rulesConfig.rules) : rulesConfig.rules[i].name # ruleName
          /\ rulesConfig' = Config(Append(rulesConfig.rules, TemplateRule(ruleName)))
    /\ UNCHANGED <<structureResult, deployed, ppc>>
    /\ edits < MaxEdits
    /\ edits' = edits + 1
    /\ UNCHANGED nonPageVars

\* VisualRuleEditor.handleDuplicateRule on the selected rule
handleDuplicateRule ==
    /\ ppc = "edited"
    /\ Len(rulesConfig.rules) < MaxConfigRules
    /\ \E selectedRuleIndex \in 1..Len(rulesConfig.rules) :
          LET selectedRule == rulesConfig.rules[selectedRuleIndex]
              duplicatedRule ==
                  [selectedRule EXCEPT
                      !.name = selectedRule.name \o "_copy",
                      !.description = "Copy of " \o OrElse(selectedRule.description,
                                                           selectedRule.name)]
          IN  rulesConfig' = Config(InsertAt(rulesConfig.rules, selectedRuleIndex + 1,
                                             duplicatedRule))
    /\ UNCHANGED <<structureResult, deployed, ppc>>
    /\ edits < MaxEdits
    /\ edits' = edits + 1
    /\ UNCHANGED nonPageVars

\* VisualRuleEditor.handleRuleChange with a rule whose name was edited
handleRuleChange ==
    /\ ppc = "edited"
    /\ \E selectedRuleIndex \in 1..Len(rulesConfig.rules), ruleName \in TypedNames :
          LET updatedRule == [rulesConfig.rules[selectedRuleIndex] EXCEPT !.name = ruleName]
          IN  /\ validateRule(updatedRule).isValid
              /\ rulesConfig' = Config([rulesConfig.rules EXCEPT ![selectedRuleIndex] = updatedRule])
    /\ UNCHANGED <<structureResult, deployed, ppc>>
    /\ edits < MaxEdits
    /\ edits' = edits + 1
    /\ UNCHANGED nonPageVars

\* VisualRuleEditor.handleDeleteRule on the selected rule
handleDeleteRule ==
    /\ ppc = "edited"
    /\ \E selectedRuleIndex \in 1..Len(rulesConfig.rules) :
          rulesConfig' = Config(RemoveAt(rulesConfig.rules, selectedRuleIndex))
    /\ UNCHANGED <<structureResult, deployed, ppc>>
    /\ edits < MaxEdits
    /\ edits' = edits + 1
    /\ UNCHANGED nonPageVars

\* VersionHistory.handleDeploy: the deployment dialog opens if validateRules
\* accepts the configuration
handleDeploy ==
    /\ ppc = "edited"
    /\ ppc' = IF validateRules(rulesConfig) THEN "deployModal" ELSE "rejected"
    /\ UNCHANGED <<rulesConfig, structureResult, deployed, edits>>
    /\ UNCHANGED nonPageVars

\* VersionHistory.confirmDeploy
confirmDeploy ==
    /\ ppc = "deployModal"
    /\ deployed' = rulesConfig.rules
    /\ ppc' = "deployed"
    /\ UNCHANGED <<rulesConfig, structureResult, edits>>
    /\ UNCHANGED nonPageVars

NoPageInit ==
    /\ rulesConfig = NoConfig
    /\ structureResult = NoStructure
    /\ deployed = <<>>
    /\ edits = 0
    /\ ppc = "off"

-----------------------------------------------------------------------------
(* evaluateOperator, case 'matchesPattern'.  A pattern is the record      *)
(* [isString, chars, padded]: chars are its first characters, and a       *)
(* padded pattern goes on with MaxPatternLength characters that are       *)
(* neither parentheses, quantifiers or bars nor twice the same in a row.  *)

MaxPatternLength == 1000

Pattern(chars, padded) == [isString |-> TRUE, chars |-> chars, padded |-> padded]
NoPattern == [isString |-> FALSE, chars |-> <<>>, padded |-> FALSE]

\* expected.length
PatternLength(e) == Len(e.chars) + (IF e.padded THEN MaxPatternLength ELSE 0)

Quantifiers == {"+", "*"}

\* /\([^)]*[+*]\)[+*]/.test(expected)
NestedQuantifierTest(e) ==
    \E i \in 1..Len(e.chars), m \in 1..Len(e.chars) :
        /\ i < m /\ m + 2 <= Len(e.chars)
        /\ e.chars[i] = "("
        /\ \A k \in (i + 1)..(m - 1) : e.chars[k] # ")"
        /\ e.chars[m] \in Quantifiers
        /\ e.chars[m + 1] = ")"
        /\ e.chars[m + 2] \in Quantifiers

\* /\([^)]*\|[^)]*\)[+*]/.test(expected)
AlternationTest(e) ==
    \E i \in 1..Len(e.chars), b \in 1..Len(e.chars), c \in 1..Len(e.chars) :
        /\ i < b /\ b < c /\ c + 1 <= Len(e.chars)
        /\ e.chars[i] = "("
        /\ e.chars[b] = "|"
        /\ e.chars[c] = ")"
        /\ \A k \in (i + 1)..(c - 1) : e.chars[k] # ")"
        /\ e.chars[c + 1] \in Quantifiers

\* /(.)\1/.test(expected)
DoubledTest(e) == \E k \in 1..(Len(e.chars) - 1) : e.chars[k] = e.chars[k + 1]

\* the case returns false before new RegExp(expected).test(actual)
GuardRejects(a, e) ==
    \/ a = UNDEF \/ ~e.isString
    \/ PatternLength(e) > MaxPatternLength
    \/ NestedQuantifierTest(e)
    \/ (AlternationTest(e) /\ DoubledTest(e))

NotMatched == [attempted |-> FALSE, returned |-> FALSE]

CountChar(cs, lo, hi, ch) == Cardinality({k \in lo..hi : cs[k] = ch})

\* the parentheses of cs[lo..hi] pair up
Balanced(cs, lo, hi) ==
    /\ \A k \in lo..hi : CountChar(cs, lo, k, "(") >= CountChar(cs, lo, k, ")")
    /\ CountChar(cs, lo, hi, "(") = CountChar(cs, lo, hi, ")")

\* new RegExp(expected) throws a SyntaxError: an unmatched parenthesis, or
\* a quantifier with nothing to repeat
RegExpThrows(e) ==
    \/ ~Balanced(e.chars, 1, Len(e.chars))
    \/ \E k \in 1..Len(e.chars) :
          /\ e.chars[k] \in Quantifiers
          /\ (k = 1 \/ e.chars[k - 1] \in {"(", "|", "+", "*"})

\* evaluateOperator(actual, 'matchesPattern', expected): the guard returns
\* false, or the RegExp constructor throws and the catch returns false, or
\* the match is attempted and the case returns what test gives
MatchesPattern ==
    /\ opc = "call"
    /\ IF GuardRejects(actualValue, pattern) \/ RegExpThrows(pattern)
       THEN matched' = NotMatched
       ELSE \E r \in BOOLEAN : matched' = [attempted |-> TRUE, returned |-> r]
    /\ opc' = "done"
    /\ UNCHANGED <<actualValue, pattern>>
    /\ UNCHANGED nonOpVars

NoOpInit ==
    /\ actualValue = UNDEF
    /\ pattern = NoPattern
    /\ matched = NotMatched
    /\ opc = "off"

\* the module as loaded: no call of ruleToFlow yet
NotReopened == [opened |-> FALSE, nodes |-> <<>>, edges |-> <<>>]

CounterInit ==
    /\ nodeIdCounter = 0
    /\ projections = <<>>
    /\ reopened = NotReopened
    /\ nextNodeId = 1000
    /\ flowEdits = 0

NoCallsInit == calls = [c \in CallIds |-> NoCall]

\* no operator handed over yet
NoOperatorCheck ==
    [pc |-> "off", operator |-> "", actual |-> UNDEF, expected |-> UNDEF,
     branch |-> "none", passed |-> FALSE, warnings |-> <<>>]

NoOperatorInit == operatorCheck = NoOperatorCheck

\* no step of the history yet
NoStep == [op |-> "none", unrecorded |-> FALSE, shown |-> <<>>]

\* useHistory as constructed, in an editor that is not open
NoHistoryInit ==
    /\ history = <<>>
    /\ currentIndex = -1
    /\ isInternalUpdate = FALSE
    /\ isHistoryUpdate = FALSE
    /\ debounceTimer = FALSE
    /\ resetTimers = 0
    /\ unrecorded = FALSE
    /\ lastStep = NoStep

\* the requests of an axios instance
RequestIds == {1, 2, 3}

\* a request not made yet
NoRequest == [pc |-> "idle", retry |-> FALSE, sends |-> 0, settled |-> 0, authorization |-> 0]

NoSettle == [op |-> "none", queue |-> <<>>]

\* the module of createAuthenticatedAxios as loaded, with the first token
AuthInit ==
    /\ isRefreshing = FALSE
    /\ failedQueue = <<>>
    /\ requests = [r \in RequestIds |-> NoRequest]
    /\ token = 1
    /\ authStep = NoSettle

\* how many versions are deployed in a run
MaxVersions == 3

\* the keys uuidv4 gives, in the order it gives them
VersionKeys == 1..MaxVersions

\* a key of the data table with no row
NoRow == [state |-> "unused", isActive |-> FALSE, version |-> 0]

NoResults == [deleted |-> <<>>, skipped |-> <<>>, errors |-> <<>>]

NoVersionCall ==
    [op |-> "none", ok |-> FALSE, key |-> 0, readFailed |-> FALSE, activeBefore |-> 0,
     results |-> NoResults, deletedActive |-> FALSE, deployedOnce |-> FALSE]

\* the data table before the first deployment
NoVersionsInit ==
    /\ dataTable = [k \in VersionKeys |-> NoRow]
    /\ lastCall = NoVersionCall

NewerInit == NoOperatorInit /\ NoHistoryInit /\ AuthInit /\ NoVersionsInit

ModuleInit == CounterInit /\ NoCallsInit /\ NewerInit

-----------------------------------------------------------------------------
(* The rule sets, inputs, rules and graphs the specifications start from *)

MaxRules == 3
MaxEdges == 4

Priorities == {10, 50, 90}

FA == Fact("a", "equal", "x")
FB == Fact("b", "equal", "x")

\* condition trees for the engine: leaves of the three kinds of fact,
\* nesting, a reference, a null entry
EngineConds ==
    {AllOf(<<FA, FB>>),
     NotOf(FactP("hasKey", "b", "equal", JSTRUE)),
     AnyOf(<<AllOf(<<FB, FA>>), Ref("shared"), FactP("inputValue", "a", "notEqual", "x")>>),
     AnyOf(<<NullCond, FA>>)}

RuleNames == <<"r1", "r2", "r3", "r4", "r5">>
Destinations == <<"Q1", "Q2", "Q3", "Q4", "Q5">>
Defaults == <<"D1", "D2", "D3", "D4", "D5">>

\* rule sets: the i-th rule has the i-th name and destinations
RuleSets ==
    UNION {{[i \in 1..n |-> MkRule(RuleNames[i], ps[i], Defaults[i], cs[i], Destinations[i])] :
               ps \in [1..n -> Priorities], cs \in [1..n -> EngineConds]} :
           n \in 1..MaxRules}

EngineInputs == [Keys -> {"x", UNDEF}]

NoFlowInit ==
    /\ rule = NoRule
    /\ nodes = <<>>
    /\ edges = <<>>
    /\ validationResult = NoValidation
    /\ saved = NotSaved
    /\ fpc = "off"

NoEngineInit ==
    /\ rules = <<>>
    /\ input = [k \in Keys |-> UNDEF]
    /\ sortedRules = <<>>
    /\ evaluationSteps = <<>>
    /\ matchedRules = <<>>
    /\ evalResult = NoResult
    /\ epc = "off"

OnlyEngine == NoFlowInit /\ NoPageInit /\ NoOpInit /\ ModuleInit
OnlyFlow == NoEngineInit /\ NoPageInit /\ NoOpInit /\ ModuleInit
OnlyPage == NoEngineInit /\ NoFlowInit /\ NoOpInit /\ ModuleInit
OnlyOp == NoEngineInit /\ NoFlowInit /\ NoPageInit /\ ModuleInit
OnlyEditor == NoEngineInit /\ NoPageInit /\ NoOpInit

EngineInit ==
    /\ rules \in RuleSets
    /\ input \in EngineInputs
    /\ sortedRules = <<>>
    /\ evaluationSteps = <<>>
    /\ matchedRules = <<>>
    /\ evalResult = NoResult
    /\ epc = "idle"
    /\ OnlyEngine

EngineNext == EvaluateStart \/ EvaluateNextRule \/ EvaluateFallback

SpecEngine == EngineInit /\ [][EngineNext]_vars

-----------------------------------------------------------------------------
(* The visual editor on an edited graph: SpecFlow *)

\* the rule under edit
BlankRule == MkRule("r1", 10, "D1", FA, "Q1")

CondIds == <<"node-0", "node-1", "node-2">>

\* the kinds of condition node the palette offers
CondKinds == {"all", "any", "not", "fact"}

Origin == [x |-> 0, y |-> 0]

HeaderNode(r) ==
    Node(HeaderId, "ruleHeader", Origin,
         [NoData EXCEPT !.name = r.name, !.priority = r.priority,
                        !.description = r.description,
                        !.defaultDestination = r.defaultDestination])

EventNode(r) ==
    Node(EventId, "eventNode", Origin,
         [NoData EXCEPT !.destination = r.event.params.destination])

\* a condition node as the palette and the properties panel leave it
CondNode(id, kind) ==
    IF kind = "fact"
    THEN Node(id, "factCondition", Origin,
              [NoData EXCEPT !.fact = "a", !.operator = "equal", !.value = "x"])
    ELSE Node(id, "logicalOperator", Origin, [NoData EXCEPT !.type = kind])

\* node lists: header first, then the condition nodes, then the event node;
\* a list without its header or event node has at most two condition nodes
GraphNodes ==
    UNION {{(IF hasH THEN <<HeaderNode(BlankRule)>> ELSE <<>>)
            \o [i \in 1..k |-> CondNode(CondIds[i], kinds[i])]
            \o (IF hasE THEN <<EventNode(BlankRule)>> ELSE <<>>) :
               kinds \in [1..k -> CondKinds],
               hasH \in IF k <= 2 THEN BOOLEAN ELSE {TRUE},
               hasE \in IF k <= 2 THEN BOOLEAN ELSE {TRUE}} :
           k \in 0..Len(CondIds)}

\* the connections the handles allow: out of the header and the condition
\* nodes, into the condition nodes and the event node
IdOrder == <<HeaderId>> \o CondIds \o <<EventId>>

Connections(ns) ==
    {p \in (1..Len(IdOrder)) \X (1..Len(IdOrder)) :
        /\ FindNode(ns, IdOrder[p[1]]) # 0
        /\ FindNode(ns, IdOrder[p[2]]) # 0
        /\ IdOrder[p[1]] # EventId
        /\ IdOrder[p[2]] # HeaderId}

\* the edges of a set of connections, by source and then by target
RECURSIVE EdgeList(_, _, _)
EdgeList(conns, i, j) ==
    IF i > Len(IdOrder) THEN <<>>
    ELSE IF j > Len(IdOrder) THEN EdgeList(conns, i + 1, 1)
    ELSE (IF <<i, j>> \in conns THEN <<Edge(IdOrder[i], IdOrder[j])>> ELSE <<>>)
         \o EdgeList(conns, i, j + 1)

FlowInit ==
    /\ rule = BlankRule
    /\ nodes \in GraphNodes
    /\ \E conns \in SUBSET Connections(nodes) :
           /\ Cardinality(conns) <= MaxEdges
           /\ edges = EdgeList(conns, 1, 1)
    /\ validationResult = validateFlow(nodes, edges)
    /\ saved = NotSaved
    /\ fpc = "editing"
    /\ OnlyFlow

FlowNext == HandleSave \/ ConfirmSaveAnyway \/ CancelSave

SpecFlow == FlowInit /\ [][FlowNext]_vars

\* flowToRule as a function of the graph
GraphNext == Reconstruct

SpecGraph == FlowInit /\ [][GraphNext]_vars

-----------------------------------------------------------------------------
(* Projection and reconstruction of a rule: SpecRoundTrip *)

\* values of a fact test: a string, true, and the falsy values
LeafValues == {"x", JSTRUE, JSFALSE, JSZERO, ""}

RoundTripLeaves ==
    {Fact("a", op, v) : op \in {"equal", "notEqual"}, v \in LeafValues}
    \cup {FactP("inputValue", "a", "equal", "x"), Ref("shared")}

\* well-formed condition trees: every node has one shape, no list is empty
RoundTripConds ==
    RoundTripLeaves
    \cup {NotOf(l) : l \in RoundTripLeaves}
    \cup {AllOf(<<l>>) : l \in RoundTripLeaves}
    \cup {AllOf(<<l1, l2>>) : l1 \in RoundTripLeaves, l2 \in RoundTripLeaves}
    \cup {AnyOf(<<NotOf(l1), l2>>) : l1 \in RoundTripLeaves, l2 \in RoundTripLeaves}
    \cup {NotOf(AnyOf(<<l1, AllOf(<<l2>>)>>)) : l1 \in RoundTripLeaves, l2 \in RoundTripLeaves}

RoundTripInit ==
    /\ rule \in {MkRule("r1", 10, "D1", c, "Q1") : c \in RoundTripConds}
    /\ nodes = <<>>
    /\ edges = <<>>
    /\ validationResult = NoValidation
    /\ saved = NotSaved
    /\ fpc = "rule"
    /\ OnlyFlow

RoundTripNext == Project \/ Reconstruct

SpecRoundTrip == RoundTripInit /\ [][RoundTripNext]_vars

\* the inputs the two condition trees are compared on
RoundTripInputs == [Keys -> LeafValues \cup {UNDEF}]

-----------------------------------------------------------------------------
(* Where a leaf's value comes from: SpecFacts *)

\* the keys of the inputs: plain keys and keys named like facts
FactKeys == {"a", "inputValue", "hasKey", "keyCount"}

FactInputs == [FactKeys -> {"x", UNDEF}]

\* leaves on a plain fact, on inputValue with and without a key, and on
\* dynamic facts with and without params
FactLeaves ==
    {Fact("a", "equal", "x"),
     FactP("inputValue", "a", "equal", "x"),
     FactP("inputValue", "hasKey", "equal", "x"),
     Fact("inputValue", "equal", "x"),
     FactP("hasKey", "a", "equal", JSTRUE),
     Fact("hasKey", "equal", JSFALSE),
     Fact("keyCount", "equal", JSONE),
     Fact("isBusinessHours", "equal", JSTRUE),
     Fact("currentHour", "exists", UNDEF)}

FactsInit ==
    /\ rules \in {<<MkRule("r1", 10, "D1", c, "Q1")>> :
                     c \in FactLeaves \cup {AllOf(<<l1, l2>>) : l1 \in FactLeaves, l2 \in FactLeaves}}
    /\ input \in FactInputs
    /\ sortedRules = <<>>
    /\ evaluationSteps = <<>>
    /\ matchedRules = <<>>
    /\ evalResult = NoResult
    /\ epc = "idle"
    /\ OnlyEngine

SpecFacts == FactsInit /\ [][EngineNext]_vars

-----------------------------------------------------------------------------
(* Patterns handed to matchesPattern: SpecPattern *)

MaxPattern == 6

PatternAlphabet == {"(", ")", "+", "*", "|", "a"}

PatternChars == UNION {[1..n -> PatternAlphabet] : n \in 0..MaxPattern}

Patterns ==
    {Pattern(cs, FALSE) : cs \in PatternChars}
    \cup {Pattern(cs, TRUE) : cs \in {<<>>, <<"a">>}}
    \cup {NoPattern}

PatternInit ==
    /\ actualValue \in {"aaaa", UNDEF}
    /\ pattern \in Patterns
    /\ matched = NotMatched
    /\ opc = "call"
    /\ OnlyOp

PatternNext == MatchesPattern

SpecPattern == PatternInit /\ [][PatternNext]_vars

-----------------------------------------------------------------------------
(* Rules without a saved layout, projected again and again: SpecProjection *)

ProjectionConds ==
    {FA, Ref("shared"), NotOf(FB), AllOf(<<FA, FB>>), AllOf(<<>>),
     AnyOf(<<NotOf(FA), FB>>), NotOf(AnyOf(<<FA, AllOf(<<FB>>)>>)),
     AllOf(<<AnyOf(<<FA, FB>>), FB>>), AllOf(<<AllOf(<<FA>>), AnyOf(<<FB>>)>>)}

ProjectionRules == {MkRule("r1", 10, "D1", c, "Q1") : c \in ProjectionConds}

ProjectionInit ==
    /\ ModuleInit
    /\ NoFlowInit
    /\ OnlyEditor

ProjectionNext == \E r \in ProjectionRules : RuleToFlow(r)

SpecProjection == ProjectionInit /\ [][ProjectionNext]_vars

-----------------------------------------------------------------------------
(* Rules with a saved layout, loaded into the editor: SpecLoad *)

\* the ids a saved layout may hold: the fixed ones, ids ruleToFlow gives,
\* and the id of a node dropped from the palette
LayoutIds == <<"rule-header", "node-0", "node-1", "event-node", "node-1000">>

\* where the operator left the node
SavedPosition(id) ==
    [x |-> 15 * IndexIn(LayoutIds, id, 1), y |-> 700 + IndexIn(LayoutIds, id, 1)]

Layouts ==
    {[nodes |-> [id \in S |-> SavedPosition(id)]] :
        S \in SUBSET {LayoutIds[i] : i \in 1..Len(LayoutIds)}}

LoadConds ==
    {FA, NotOf(FB), AllOf(<<FA, FB>>), AnyOf(<<NotOf(FA), FB>>),
     FactP("inputValue", "a", "equal", "x"), NotOf(AnyOf(<<FA, AllOf(<<FB>>)>>))}

LoadRules ==
    {[MkRule("r1", 10, "D1", c, "Q1") EXCEPT !.layout = l] :
        c \in LoadConds, l \in Layouts}

LoadInit ==
    /\ rule \in LoadRules
    /\ nodes = <<>>
    /\ edges = <<>>
    /\ validationResult = NoValidation
    /\ saved = NotSaved
    /\ fpc = "rule"
    /\ ModuleInit
    /\ OnlyEditor

LoadNext == InitializeFlow \/ handleReset \/ loadRule

SpecLoad == LoadInit /\ [][LoadNext]_vars

-----------------------------------------------------------------------------
(* A rule opened, edited, saved and shown again: SpecReopen *)

ReopenConds == {FA, AllOf(<<FA, FB>>), AllOf(<<>>)}

ReopenInit ==
    /\ rule \in {MkRule("r1", 10, "D1", c, "Q1") : c \in ReopenConds}
    /\ nodes = <<>>
    /\ edges = <<>>
    /\ validationResult = NoValidation
    /\ saved = NotSaved
    /\ fpc = "rule"
    /\ ModuleInit
    /\ OnlyEditor

ReopenNext ==
    \/ InitializeFlow
    \/ \E i \in 1..Len(nodes) : onNodeDrag(i)
    \/ \E kind \in CondKinds : onDrop(kind)
    \/ \E i \in 1..Len(nodes) : onNodesDelete(i)
    \/ \E i \in 1..Len(nodes), j \in 1..Len(nodes) : onConnect(i, j)
    \/ \E k \in 1..Len(edges) : onEdgesDelete(k)
    \/ HandleSave
    \/ ConfirmSaveAnyway
    \/ CancelSave
    \/ Reopen

SpecReopen == ReopenInit /\ [][ReopenNext]_vars

-----------------------------------------------------------------------------
(* Two evaluate calls interleaved: SpecReentrant *)

\* rule sets of two rules, in any order of priority
ReentrantRuleSets ==
    {[i \in 1..2 |-> MkRule(RuleNames[i], ps[i], Defaults[i], cs[i], Destinations[i])] :
        ps \in [1..2 -> Priorities], cs \in [1..2 -> EngineConds]}

ReentrantInit ==
    /\ rules \in ReentrantRuleSets
    /\ input = [k \in Keys |-> UNDEF]
    /\ sortedRules = <<>>
    /\ evaluationSteps = <<>>
    /\ matchedRules = <<>>
    /\ evalResult = NoResult
    /\ epc = "off"
    /\ \E inputs \in [CallIds -> EngineInputs] :
          calls = [c \in CallIds |-> [NoCall EXCEPT !.pc = "idle", !.input = inputs[c]]]
    /\ NoFlowInit /\ NoPageInit /\ NoOpInit /\ CounterInit /\ NewerInit

ReentrantNext ==
    \E c \in CallIds : CallStart(c) \/ CallNextRule(c) \/ CallFallback(c)

SpecReentrant == ReentrantInit /\ [][ReentrantNext]_vars

-----------------------------------------------------------------------------
(* Graphs with any number of header and event nodes: SpecNodes *)

MaxNodeEdges == 3

\* the ids of a second header node and a second event node
SecondHeaderId == "rule-header-2"
SecondEventId == "event-node-2"

\* up to two header nodes, one fact node, up to two event nodes
CountedNodes ==
    {SubSeq(<<HeaderNode(BlankRule), [HeaderNode(BlankRule) EXCEPT !.id = SecondHeaderId]>>, 1, h)
     \o SubSeq(<<CondNode("node-0", "fact")>>, 1, c)
     \o SubSeq(<<EventNode(BlankRule), [EventNode(BlankRule) EXCEPT !.id = SecondEventId]>>, 1, e) :
        h \in 0..2, c \in 0..1, e \in 0..2}

\* connections by position in the node list: not out of an event node, not
\* into a header node
NodeConnections(ns) ==
    {p \in (1..Len(ns)) \X (1..Len(ns)) :
        ns[p[1]].type # "eventNode" /\ ns[p[2]].type # "ruleHeader"}

RECURSIVE NodeEdgeList(_, _, _, _)
NodeEdgeList(ns, conns, i, j) ==
    IF i > Len(ns) THEN <<>>
    ELSE IF j > Len(ns) THEN NodeEdgeList(ns, conns, i + 1, 1)
    ELSE (IF <<i, j>> \in conns THEN <<Edge(ns[i].id, ns[j].id)>> ELSE <<>>)
         \o NodeEdgeList(ns, conns, i, j + 1)

NodesInit ==
    /\ rule = BlankRule
    /\ nodes \in CountedNodes
    /\ \E conns \in SUBSET NodeConnections(nodes) :
           /\ Cardinality(conns) <= MaxNodeEdges
           /\ edges = NodeEdgeList(nodes, conns, 1, 1)
    /\ validationResult = validateFlow(nodes, edges)
    /\ saved = NotSaved
    /\ fpc = "editing"
    /\ OnlyFlow

SpecNodes == NodesInit /\ [][FlowNext]_vars

-----------------------------------------------------------------------------
(* Validation of the structure of a configuration: SpecStructure *)

\* a condition object with none of the five keys
NoShape == Cond({}, <<>>, <<>>, <<>>, UNDEF, UNDEF, UNDEF, NoParams, UNDEF)

\* condition objects with one key, with two keys, with none, and with an
\* empty list
ShapeNodes ==
    {FA, Ref("shared"), NotOf(FB), AllOf(<<FA, FB>>), AnyOf(<<FA>>),
     NoShape,
     Cond({"all"}, <<FB>>, <<>>, <<>>, "a", "equal", "x", NoParams, UNDEF),
     Cond({"all", "any"}, <<FA>>, <<FB>>, <<>>, UNDEF, UNDEF, UNDEF, NoParams, UNDEF),
     Cond({}, <<>>, <<>>, <<>>, "a", "equal", "x", NoParams, "shared"),
     Cond({"not"}, <<>>, <<>>, <<FA>>, UNDEF, UNDEF, UNDEF, NoParams, "shared"),
     AllOf(<<>>),
     AnyOf(<<>>)}

ShapeConds ==
    ShapeNodes
    \cup {NotOf(n) : n \in ShapeNodes}
    \cup {AnyOf(<<n>>) : n \in ShapeNodes}
    \cup {AllOf(<<n1, n2>>) : n1 \in ShapeNodes, n2 \in ShapeNodes}

StructureConfigs ==
    {NoConfig, Config(<<>>)}
    \cup {Config(<<MkRule("r1", 10, "D1", c, "Q1")>>) : c \in ShapeConds}
    \cup {Config(<<MkRule("r1", 10, "D1", FA, "Q1"), MkRule("r2", 50, "D2", c, "Q2")>>) :
              c \in ShapeConds}

StructureInit ==
    /\ rulesConfig \in StructureConfigs
    /\ structureResult = NoStructure
    /\ deployed = <<>>
    /\ edits = 0
    /\ ppc = "edited"
    /\ OnlyPage

StructureNext == ValidateStructure

SpecStructure == StructureInit /\ [][StructureNext]_vars

-----------------------------------------------------------------------------
(* Rules of every kind handed to ruleToFlow: SpecShape *)

\* the fact node of the palette saved as it is dropped
UnfilledFact == Fact("", "equal", "")

\* conditions that are no condition object, that have no key, or that hold
\* a fact test without fact, next to the well-formed ones
AnyConds ==
    RoundTripConds
    \cup {NullCond, NoShape, UnfilledFact, AllOf(<<>>), AllOf(<<NoShape>>),
          AllOf(<<FA, UnfilledFact>>), NotOf(NoShape), AnyOf(<<UnfilledFact, FB>>)}

ShapeInit ==
    /\ rule \in {MkRule("r1", 10, "D1", c, "Q1") : c \in AnyConds}
    /\ nodes = <<>>
    /\ edges = <<>>
    /\ validationResult = NoValidation
    /\ saved = NotSaved
    /\ fpc = "rule"
    /\ OnlyFlow

ShapeNext == Project

SpecShape == ShapeInit /\ [][ShapeNext]_vars

-----------------------------------------------------------------------------
(* Editing and deploying a configuration: SpecPage *)

PageInit ==
    /\ rulesConfig \in {Config(<<TemplateRule(n)>>) : n \in TypedNames}
    /\ structureResult = NoStructure
    /\ deployed = <<>>
    /\ edits = 0
    /\ ppc = "edited"
    /\ OnlyPage

PageNext ==
    \/ CreateRuleFromTemplate
    \/ handleDuplicateRule
    \/ handleRuleChange
    \/ handleDeleteRule
    \/ ValidateStructure
    \/ handleDeploy
    \/ confirmDeploy

SpecPage == PageInit /\ [][PageNext]_vars

-----------------------------------------------------------------------------
(* Properties of RuleEngineSimulator.evaluate, checked under SpecEngine *)

\* rule i of the rule set is evaluated before rule j
Before(i, j) ==
    \/ rules[i].priority > rules[j].priority
    \/ rules[i].priority = rules[j].priority /\ i < j

\* the rule set in descending priority, ties in their original order
ExpectedOrder ==
    [k \in 1..Len(rules) |->
        rules[CHOOSE i \in 1..Len(rules) :
                 Cardinality({j \in 1..Len(rules) : Before(j, i)}) = k - 1]]

\* the root condition of r is true for the input
ConditionTrue(r) == evaluateRule(r, input).value.passed

\* C2: the rule names of the trace are a prefix of the rule set sorted stably
\* by descending priority, one entry per rule evaluated; when no rule
\* matched the trace holds every rule.
C2_PriorityOrder ==
    /\ Len(evaluationSteps) <= Len(rules)
    /\ \A k \in 1..Len(evaluationSteps) :
           evaluationSteps[k].ruleName = ExpectedOrder[k].name
    /\ epc # "idle" => sortedRules = ExpectedOrder

\* three rules, out of order and with a tie, all of them evaluated
C2_Witness ==
    /\ epc = "done"
    /\ Len(rules) = 3
    /\ Len(evaluationSteps) = 3
    /\ rules[1].priority < rules[2].priority
    /\ rules[2].priority = rules[3].priority

\* C3: a result with a match is the event destination of the first rule, in
\* sorted order, whose condition is true; that rule is the last trace entry,
\* every earlier entry has not passed, and matchedRules holds that rule
\* alone.  No rule after it is evaluated.
C3_FirstMatchWins ==
    epc = "done" =>
        LET n == Len(evaluationSteps)
            anyTrue == \E i \in 1..Len(rules) : ConditionTrue(rules[i])
        IN  anyTrue =>
                /\ evalResult.status = "returned"
                /\ n >= 1
                /\ ConditionTrue(ExpectedOrder[n])
                /\ \A k \in 1..(n - 1) : ~ConditionTrue(ExpectedOrder[k])
                /\ evaluationSteps[n].ruleName = ExpectedOrder[n].name
                /\ evaluationSteps[n].passed
                /\ \A k \in 1..(n - 1) : ~evaluationSteps[k].passed
                /\ matchedRules = <<ExpectedOrder[n].name>>
                /\ evalResult.matchedRules = matchedRules
                /\ evalResult.destination = ExpectedOrder[n].event.params.destination

\* the second rule in sorted order matched and a third was left unevaluated
C3_Witness ==
    /\ epc = "done"
    /\ Len(rules) = 3
    /\ Len(evaluationSteps) = 2
    /\ matchedRules # <<>>
    /\ ConditionTrue(sortedRules[3])

\* C4: when no rule's condition is true the result is the defaultDestination
\* of the lowest-priority rule (the latest in the rule set among those of
\* equal lowest priority), matchedRules is empty and the trace has one entry
\* per rule.
C4_Fallback ==
    (epc = "done" /\ \A i \in 1..Len(rules) : ~ConditionTrue(rules[i])) =>
        LET lowest == CHOOSE i \in 1..Len(rules) :
                          \A j \in 1..Len(rules) :
                              \/ rules[j].priority > rules[i].priority
                              \/ rules[j].priority = rules[i].priority /\ j <= i
        IN  /\ evalResult.status = "returned"
            /\ evalResult.destination = rules[lowest].defaultDestination
            /\ evalResult.matchedRules = <<>>
            /\ matchedRules = <<>>
            /\ Len(evaluationSteps) = Len(rules)
            /\ \A k \in 1..Len(evaluationSteps) : ~evaluationSteps[k].passed

\* no match among three rules of which the first and the last tie for lowest
C4_Witness ==
    /\ epc = "done"
    /\ matchedRules = <<>>
    /\ Len(rules) = 3
    /\ rules[1].priority = rules[3].priority
    /\ rules[2].priority > rules[1].priority
    /\ evalResult.destination = rules[3].defaultDestination

\* the fact-test leaves of a condition tree, depth first, left to right
RECURSIVE Leaves(_), LeavesOfAll(_)
Leaves(c) ==
    IF IsNull(c) THEN <<>>
    ELSE IF c.shape # {} THEN LeavesOfAll(c.all \o c.any \o c.not)
    ELSE IF c.condition # UNDEF THEN <<>>
    ELSE <<c>>

LeavesOfAll(kids) ==
    IF kids = <<>> THEN <<>> ELSE Leaves(Head(kids)) \o LeavesOfAll(Tail(kids))

RuleNamed(name) == rules[CHOOSE i \in 1..Len(rules) : rules[i].name = name]

\* C5: a rule's trace entry holds one check per fact-test leaf of its
\* condition tree, in depth-first left-to-right order, whatever the results
\* of the other leaves.
C5_NoShortCircuit ==
    \A k \in 1..Len(evaluationSteps) :
        LET leaves == Leaves(RuleNamed(evaluationSteps[k].ruleName).conditions)
            checks == evaluationSteps[k].conditions
        IN  /\ Len(checks) = Len(leaves)
            /\ \A i \in 1..Len(leaves) :
                   /\ checks[i].fact = FactName(leaves[i])
                   /\ checks[i].operator = leaves[i].operator
                   /\ checks[i].expected = leaves[i].value

\* an all whose first leaf failed and whose second leaf was still checked,
\* and an any whose first leaf passed and whose second was still checked
C5_Witness ==
    \E k \in 1..Len(evaluationSteps) :
        LET c == RuleNamed(evaluationSteps[k].ruleName).conditions
            checks == evaluationSteps[k].conditions
        IN  /\ c = AllOf(<<FA, FB>>)
            /\ Len(checks) = 2
            /\ ~checks[1].passed
            /\ checks[2].passed

\* a null entry somewhere in the arrays of the tree
RECURSIVE HasNullEntry(_)
HasNullEntry(c) ==
    \/ IsNull(c)
    \/ \E i \in 1..Len(c.all) : HasNullEntry(c.all[i])
    \/ \E i \in 1..Len(c.any) : HasNullEntry(c.any[i])
    \/ \E i \in 1..Len(c.not) : HasNullEntry(c.not[i])

-----------------------------------------------------------------------------
(* Properties of the projections, checked under SpecRoundTrip, SpecGraph  *)
(* and SpecFlow                                                            *)

\* the two rules' conditions evaluate alike on every input
SameEvaluation(r1, r2) ==
    \A inp \in RoundTripInputs :
        evaluateRule(r1, inp).value.passed = evaluateRule(r2, inp).value.passed

\* C1: flowToRule of ruleToFlow of a well-formed rule returns a rule whose
\* conditions evaluate like the rule's on every input and whose name,
\* priority, defaultDestination and event destination are the rule's.
C1_RoundTrip ==
    fpc = "reconstructed" =>
        /\ saved.status = "ok"
        /\ SameEvaluation(saved.rule, rule)
        /\ saved.rule.name = rule.name
        /\ saved.rule.priority = rule.priority
        /\ saved.rule.defaultDestination = rule.defaultDestination
        /\ saved.rule.event.params.destination = rule.event.params.destination

\* ids of the nodes of a given type, and of the condition nodes
IdsOfType(type) == {nodes[i].id : i \in {j \in 1..Len(nodes) : nodes[j].type = type}}

ConditionIds == IdsOfType("logicalOperator") \cup IdsOfType("factCondition")

\* targets of the edges that leave a set of nodes
Successors(S) == {edges[i].target : i \in {j \in 1..Len(edges) : edges[j].source \in S}}

\* everything reachable from S along edges, S included
RECURSIVE ReachableFrom(_)
ReachableFrom(S) ==
    IF Successors(S) \subseteq S THEN S ELSE ReachableFrom(S \cup Successors(S))

\* n lies on a directed cycle
OnCycle(n) == n \in ReachableFrom(Successors({n}))

\* a directed cycle can be reached from the header node
CycleFromHeader ==
    \E h \in IdsOfType("ruleHeader") : \E n \in ReachableFrom({h}) : OnCycle(n)

\* a node with two parents
Diamond ==
    \E i, j \in 1..Len(edges) :
        /\ edges[i].target = edges[j].target
        /\ edges[i].source # edges[j].source
        /\ edges[i].target \in ReachableFrom({HeaderId})

HasError(result, msg) == \E i \in 1..Len(result.errors) : result.errors[i] = msg

\* C7: validateFlow reports 'Rule contains circular dependencies', and so
\* isValid = false, exactly when a directed cycle is reachable from the
\* header node; an acyclic graph with a two-parent node is not reported.
C7_CycleRejection ==
    /\ HasError(validationResult, CircularError) <=> CycleFromHeader
    /\ CycleFromHeader => ~validationResult.isValid

\* a diamond without a cycle passed validation and was saved
C7_Witness ==
    /\ Diamond
    /\ ~CycleFromHeader
    /\ validationResult.isValid
    /\ fpc = "saved"

\* C8: a graph with a directed cycle among condition nodes reachable from
\* the header is never turned into a rule by flowToRule, whether the save
\* went straight through or the operator chose 'save anyway'.
C8_CyclicNeverSaved ==
    (fpc \in {"saved", "failed"} /\ CycleFromHeader) => saved.status # "ok"

\* the header has an edge to a condition node
HasRootCondition ==
    \E i \in 1..Len(edges) :
        /\ edges[i].source = HeaderId
        /\ edges[i].target \in ConditionIds

\* a condition tree with something in it, at every level
RECURSIVE Populated(_)
Populated(c) ==
    /\ ~IsNull(c)
    /\ IF HasAll(c) THEN Len(c.all) > 0 /\ \A i \in 1..Len(c.all) : Populated(c.all[i])
       ELSE IF HasAny(c) THEN Len(c.any) > 0 /\ \A i \in 1..Len(c.any) : Populated(c.any[i])
       ELSE IF "not" \in c.shape THEN Len(c.not) = 1 /\ Populated(c.not[1])
       ELSE Truthy(c.fact) \/ Truthy(c.condition)

\* C9: flowToRule ends with an error and no rule when the graph lacks the
\* header node, the event node, or a condition node connected from the
\* header; a rule it returns never has empty or missing conditions.
C9_HardErrors ==
    fpc = "reconstructed" =>
        /\ (IdsOfType("ruleHeader") = {} \/ IdsOfType("eventNode") = {} \/ ~HasRootCondition)
               => (saved.status = "error" /\ saved.rule = NoRule)
        /\ saved.status = "ok" => Populated(saved.rule.conditions)

\* header and event are there, the header leads to no condition node
C9_Witness ==
    /\ fpc = "reconstructed"
    /\ IdsOfType("ruleHeader") # {}
    /\ IdsOfType("eventNode") # {}
    /\ ConditionIds # {}
    /\ ~HasRootCondition
    /\ saved.error = "No root condition found"

\* the node flowToRule starts from, and the nodes its recursion calls on
RootConditionIds == FilterTargets(nodes, Adjacency(edges, HeaderId))

RECURSIVE BuiltFrom(_)
BuiltFrom(S) ==
    LET more == {id \in Successors(S \cap IdsOfType("logicalOperator")) : IsConditionTarget(nodes, id)}
    IN  IF more \subseteq S THEN S ELSE BuiltFrom(S \cup more)

InBuild == IF Len(RootConditionIds) = 0 THEN {} ELSE BuiltFrom({RootConditionIds[1]})

\* 'not' nodes without an edge to any node
ChildlessNots ==
    {nodes[i].id : i \in {j \in 1..Len(nodes) :
        /\ nodes[j].type = "logicalOperator"
        /\ nodes[j].data.type = "not"
        /\ Successors({nodes[j].id}) = {}}}

\* C10: when flowToRule comes upon a 'not' node with no resolvable child,
\* at the root or under an all/any node, it fails with an error; the node
\* is never dropped from the tree.
C10_NotNeverDropped ==
    (fpc = "reconstructed" /\ InBuild \cap ChildlessNots # {}) => saved.status = "error"

-----------------------------------------------------------------------------
(* Properties of the validation of a configuration, checked under         *)
(* SpecStructure and SpecPage                                              *)

\* the keys of the five shapes that a condition object has
ShapesOf(c) ==
    (c.shape \cap {"all", "any", "not"})
    \cup (IF c.fact # UNDEF THEN {"fact"} ELSE {})
    \cup (IF c.condition # UNDEF THEN {"condition"} ELSE {})

\* every node has exactly one shape, no all / any list is empty
RECURSIVE WellShaped(_)
WellShaped(c) ==
    /\ ~IsNull(c)
    /\ Cardinality(ShapesOf(c)) = 1
    /\ "all" \in c.shape => (Len(c.all) > 0 /\ \A i \in 1..Len(c.all) : WellShaped(c.all[i]))
    /\ "any" \in c.shape => (Len(c.any) > 0 /\ \A i \in 1..Len(c.any) : WellShaped(c.any[i]))
    /\ "not" \in c.shape => WellShaped(c.not[1])

\* C11: validateRuleStructure accepts the rules' condition trees exactly
\* when every node has one of the five shapes and only one, and no all /
\* any list is empty.
C11_ShapeValidation ==
    (ppc = "validated" /\ Len(rulesConfig.rules) > 0) =>
        (structureResult.isValid <=>
            \A i \in 1..Len(rulesConfig.rules) : WellShaped(rulesConfig.rules[i].conditions))

\* two rules of the list have the same name
SameNameTwice(rs) == \E i, j \in 1..Len(rs) : i # j /\ rs[i].name = rs[j].name

\* C12: a rule set with two equally named rules is rejected by
\* validateRuleStructure and by validateRules, and no sequence of editor
\* operations ends in a deployed rule set with two equally named rules.
C12_UniqueNames ==
    /\ (ppc = "validated" /\ SameNameTwice(rulesConfig.rules)) => ~structureResult.isValid
    /\ SameNameTwice(rulesConfig.rules) => ~validateRules(rulesConfig)
    /\ ~SameNameTwice(deployed)

\* validateRules guards the deployment dialog: a configuration with two
\* equally named rules is not deployed
DeployedUnique ==
    /\ SameNameTwice(rulesConfig.rules) => ppc \notin {"deployModal", "deployed"}
    /\ ~SameNameTwice(deployed)

-----------------------------------------------------------------------------
(* Properties of validateFlow on the nodes, checked under SpecFlow and    *)
(* SpecNodes                                                               *)

\* ids of the logical nodes, and of those of kind 'not'
LogicalIds == IdsOfType("logicalOperator")

NotIds ==
    {nodes[i].id : i \in {j \in 1..Len(nodes) :
        nodes[j].type = "logicalOperator" /\ nodes[j].data.type = "not"}}

\* the number of edges that leave a node
OutDegree(n) == Cardinality({i \in 1..Len(edges) : edges[i].source = n})

NoChildError == "Logical operator node must have at least one child"
NotChildrenError == "NOT operator can only have one child condition"

\* C13: validateFlow reports an error for a 'not' node with no outgoing
\* edge and for one with two or more outgoing edges, the graph is then not
\* valid, and 'not' nodes with exactly one outgoing edge bring neither error.
C13_NotOneChild ==
    /\ (\E n \in NotIds : OutDegree(n) = 0)
           => (HasError(validationResult, NoChildError) /\ ~validationResult.isValid)
    /\ (\E n \in NotIds : OutDegree(n) >= 2)
           => (HasError(validationResult, NotChildrenError) /\ ~validationResult.isValid)
    /\ (\A n \in NotIds : OutDegree(n) = 1)
           => /\ ~HasError(validationResult, NotChildrenError)
              /\ HasError(validationResult, NoChildError)
                    => \E n \in LogicalIds \ NotIds : OutDegree(n) = 0

\* a graph whose 'not' node has one outgoing edge was found valid and saved
C13_Witness ==
    /\ NotIds # {}
    /\ \A n \in NotIds : OutDegree(n) = 1
    /\ validationResult.isValid
    /\ fpc = "saved"

\* C14: a graph that validateFlow returns as valid has exactly one header
\* node and exactly one event node.
C14_RequiredNodesOnce ==
    validationResult.isValid =>
        /\ Cardinality(IdsOfType("ruleHeader")) = 1
        /\ Cardinality(IdsOfType("eventNode")) = 1

\* a graph without its header node or without its event node is not valid
RequiredNodesPresent ==
    validationResult.isValid =>
        /\ IdsOfType("ruleHeader") # {}
        /\ IdsOfType("eventNode") # {}

-----------------------------------------------------------------------------
(* Properties of the resolution of facts, checked under SpecFacts *)

\* the three sources in the order: dynamic fact, inputValue, direct lookup
DynamicThenInputValue(condition, inp) ==
    IF condition.fact \in DynamicFactNames
    THEN DynamicFact(condition.fact, condition.params, inp)
    ELSE IF condition.fact = "inputValue"
    THEN Lookup(inp, condition.params.key)
    ELSE Lookup(inp, condition.fact)

\* the same order, the inputValue source only for a leaf with params.key
DynamicThenKeyedInputValue(condition, inp) ==
    IF condition.fact \in DynamicFactNames
    THEN DynamicFact(condition.fact, condition.params, inp)
    ELSE IF condition.fact = "inputValue" /\ Truthy(condition.params.key)
    THEN Lookup(inp, condition.params.key)
    ELSE Lookup(inp, condition.fact)

\* what the trace shows for an actual value
Shown(actual) == IF actual # UNDEF THEN actual ELSE "undefined"

\* the actual values of every trace entry are those Resolve gives for the
\* leaves of the rule
ActualsFrom(Resolve(_, _)) ==
    \A i \in 1..Len(evaluationSteps) :
        LET step == evaluationSteps[i]
            leaves == Leaves(RuleNamed(step.ruleName).conditions)
        IN  /\ Len(step.conditions) = Len(leaves)
            /\ \A j \in 1..Len(leaves) :
                  step.conditions[j].actual = Shown(Resolve(leaves[j], input))

\* C15 as stated: the actual value of a leaf comes from a registered
\* dynamic fact of that name, otherwise for 'inputValue' from
\* input[params.key], otherwise from input[fact].
C15_ResolutionOrder == ActualsFrom(DynamicThenInputValue)

\* C15, amended: the actual value of a leaf comes from a registered dynamic
\* fact of that name, otherwise for 'inputValue' with a params.key from
\* input[params.key], otherwise (an 'inputValue' leaf without params.key
\* included) from input[fact].
C15_ResolutionOrderKeyed == ActualsFrom(DynamicThenKeyedInputValue)

\* a leaf on a dynamic fact was evaluated on an input that has a key of
\* the fact's name, and a leaf on inputValue on an input with that key
C15_Witness ==
    /\ epc = "done"
    /\ Len(evaluationSteps) = 1
    /\ Lookup(input, "hasKey") = "x"
    /\ Lookup(input, "inputValue") = "x"
    /\ \E j \in 1..Len(evaluationSteps[1].conditions) :
          /\ evaluationSteps[1].conditions[j].fact = "hasKey"
          /\ evaluationSteps[1].conditions[j].actual = JSTRUE
    /\ \E j \in 1..Len(evaluationSteps[1].conditions) :
          /\ evaluationSteps[1].conditions[j].fact = "inputValue.a"

-----------------------------------------------------------------------------
(* C16 *)

\* cs[i] opens the group that cs[c] closes
GroupSpan(cs, i, c) ==
    /\ i < c /\ cs[i] = "(" /\ cs[c] = ")"
    /\ Balanced(cs, i + 1, c - 1)

\* cs[b] is a bar of the group i..c itself, not of a group inside it
BarOfGroup(cs, i, b, c) ==
    /\ i < b /\ b < c /\ cs[b] = "|"
    /\ Balanced(cs, i + 1, b - 1)

\* a repeated group that holds a repetition, as "(a+)+" does
NestedQuantifierShape(e) ==
    \E i \in 1..Len(e.chars), c \in 1..Len(e.chars) :
        /\ GroupSpan(e.chars, i, c)
        /\ c + 1 <= Len(e.chars) /\ e.chars[c + 1] \in Quantifiers
        /\ \E k \in (i + 1)..(c - 1) : e.chars[k] \in Quantifiers

\* a repeated group whose alternatives share a character, as "(a|a)*" does
AlternationRepeatedShape(e) ==
    \E i \in 1..Len(e.chars), b \in 1..Len(e.chars), c \in 1..Len(e.chars) :
        /\ GroupSpan(e.chars, i, c)
        /\ BarOfGroup(e.chars, i, b, c)
        /\ c + 1 <= Len(e.chars) /\ e.chars[c + 1] \in Quantifiers
        /\ \E k1 \in (i + 1)..(b - 1), k2 \in (b + 1)..(c - 1) :
              e.chars[k1] = "a" /\ e.chars[k2] = "a"

StringsGiven == opc = "done" /\ actualValue # UNDEF /\ pattern.isString

\* C16: matchesPattern returns false without attempting the match for
\* every actual string when the pattern is longer than 1000 characters,
\* or repeats a group that holds a repetition, or repeats a group whose
\* alternatives share a character.
C16_ReDoSGuard ==
    (/\ StringsGiven
     /\ \/ PatternLength(pattern) > MaxPatternLength
        \/ NestedQuantifierShape(pattern)
        \/ AlternationRepeatedShape(pattern))
    => matched = NotMatched

\* what the guard does stop: over-long patterns, and a repetition directly
\* before the closing parenthesis of a repeated group
GuardedShapesRejected ==
    (/\ StringsGiven
     /\ \/ PatternLength(pattern) > MaxPatternLength
        \/ NestedQuantifierTest(pattern))
    => matched = NotMatched

\* the pattern of the guard's own comment is matched against the input
AlternationAttempted ==
    /\ StringsGiven
    /\ pattern = Pattern(<<"(", "a", "|", "a", ")", "*">>, FALSE)
    /\ matched.attempted

-----------------------------------------------------------------------------
(* C17 *)

\* the ids of the condition nodes of a graph, in the order of the list
ConditionIdList(ns) ==
    LET cs == SelectSeq(ns, LAMBDA n : n.type \in {"logicalOperator", "factCondition"})
    IN  [i \in 1..Len(cs) |-> cs[i].id]

CountedFromZero(ns) ==
    ConditionIdList(ns) = [i \in 1..Len(ConditionIdList(ns)) |-> generateNodeId(i - 1)]

\* C17: two calls of ruleToFlow on the same rule without saved layout,
\* whatever was projected before or in between, return the same nodes
\* (ids and positions) and the same edges, with the condition ids counted
\* from node-0, and autoLayoutNodes places both results the same.
C17_ProjectionDeterministic ==
    \A i \in 1..Len(projections) :
        /\ CountedFromZero(projections[i].nodes)
        /\ \A j \in 1..Len(projections) :
               projections[i].rule = projections[j].rule
               => /\ projections[i].nodes = projections[j].nodes
                  /\ projections[i].edges = projections[j].edges
                  /\ projections[i].layoutNodes = projections[j].layoutNodes

\* a rule with three condition nodes projected, another rule projected,
\* and the first rule projected again
C17_Witness ==
    /\ Len(projections) = 3
    /\ projections[1].rule = projections[3].rule
    /\ projections[1].rule # projections[2].rule
    /\ Len(ConditionIdList(projections[3].nodes)) = 3
    /\ nodeIdCounter = 3

-----------------------------------------------------------------------------
(* C18 *)

\* every node with an entry in rule.layout.nodes stands where the entry says
AtSavedPositions ==
    \A i \in 1..Len(nodes) :
        nodes[i].id \in DOMAIN rule.layout.nodes
        => nodes[i].position = rule.layout.nodes[nodes[i].id]

\* C18: when a rule with a saved layout is loaded into the editor, by
\* RuleFlow's initialisation, by its reset or by useRuleEditor.loadRule,
\* every node whose id has an entry in rule.layout.nodes is placed at the
\* saved position.
C18_SavedPositionsReused ==
    fpc \in {"initialised", "reset", "loaded"} => AtSavedPositions

\* RuleFlow's initialisation and reset do place the nodes as saved
RuleFlowReusesSaved ==
    fpc \in {"initialised", "reset"} => AtSavedPositions

\* loadRule has moved a node that has a saved position
LoadRuleMoved ==
    /\ fpc = "loaded"
    /\ \E i \in 1..Len(nodes) :
          /\ nodes[i].id = "node-0"
          /\ "node-0" \in DOMAIN rule.layout.nodes
          /\ nodes[i].position # rule.layout.nodes["node-0"]

-----------------------------------------------------------------------------
(* C19 *)

\* the fact nodes of a graph that test the fact f
FactNodes(ns, f) ==
    {i \in 1..Len(ns) : ns[i].type = "factCondition" /\ ns[i].data.fact = f}

SessionFacts == {"a", "b", "c"}

\* the one node of that kind stands in both graphs at the same position
SamePlace(before, after) ==
    \A i \in before, j \in after :
        (Cardinality(before) = 1 /\ Cardinality(after) = 1)
        => reopened.nodes[j].position = nodes[i].position

NodesOfType(ns, type) == {i \in 1..Len(ns) : ns[i].type = type}

\* C19: after the operator has edited the graph and saved it, the graph
\* shown for the saved rule has the header, the event node and every fact
\* node at the position the node had when saved.
C19_ReopenRestores ==
    reopened.opened
    => /\ SamePlace(NodesOfType(nodes, "ruleHeader"), NodesOfType(reopened.nodes, "ruleHeader"))
       /\ SamePlace(NodesOfType(nodes, "eventNode"), NodesOfType(reopened.nodes, "eventNode"))
       /\ \A f \in SessionFacts :
             SamePlace(FactNodes(nodes, f), FactNodes(reopened.nodes, f))

\* the header and the event node, whose ids are fixed, do come back in place
FixedNodesRestored ==
    reopened.opened
    => /\ SamePlace(NodesOfType(nodes, "ruleHeader"), NodesOfType(reopened.nodes, "ruleHeader"))
       /\ SamePlace(NodesOfType(nodes, "eventNode"), NodesOfType(reopened.nodes, "eventNode"))

\* a graph whose condition ids are those ruleToFlow gives comes back in place
SameIdsRestored ==
    (reopened.opened /\ \A i \in 1..Len(reopened.nodes) :
                           FindNode(nodes, reopened.nodes[i].id) # 0
                           /\ nodes[FindNode(nodes, reopened.nodes[i].id)].data
                              = reopened.nodes[i].data)
    => \A i \in 1..Len(reopened.nodes) :
           reopened.nodes[i].position
           = nodes[FindNode(nodes, reopened.nodes[i].id)].position

\* a dropped fact node, connected and saved, is shown elsewhere
DroppedNodeDisplaced ==
    /\ reopened.opened
    /\ \E i \in FactNodes(nodes, "c"), j \in FactNodes(reopened.nodes, "c") :
          /\ nodes[i].id = "node-1000"
          /\ reopened.nodes[j].position # nodes[i].position

\* a fact node shown at the saved position of another node
TakesPositionOfOther ==
    /\ reopened.opened
    /\ \E i \in 1..Len(nodes), j \in 1..Len(reopened.nodes) :
          /\ reopened.nodes[j].type = "factCondition"
          /\ nodes[i].id = reopened.nodes[j].id
          /\ nodes[i].data.fact # reopened.nodes[j].data.fact
          /\ reopened.nodes[j].position = nodes[i].position
          /\ nodes[i].position = DraggedTo(nodes[i].id)

-----------------------------------------------------------------------------
(* C20 *)

EdgesInto(id) == {k \in 1..Len(edges) : edges[k].target = id}
EdgesOutOf(id) == {k \in 1..Len(edges) : edges[k].source = id}

ProjectedStructure ==
    /\ \E i \in 1..Len(nodes) : NodesOfType(nodes, "ruleHeader") = {i} /\ nodes[i].id = HeaderId
    /\ \E i \in 1..Len(nodes) : NodesOfType(nodes, "eventNode") = {i} /\ nodes[i].id = EventId
    /\ EdgesInto(HeaderId) = {} /\ EdgesOutOf(HeaderId) # {}
    /\ EdgesInto(EventId) # {} /\ EdgesOutOf(EventId) = {}
    /\ \A i \in 1..Len(nodes), j \in 1..Len(nodes) : nodes[i].id = nodes[j].id => i = j
    /\ \A k \in 1..Len(edges) :
          FindNode(nodes, edges[k].source) # 0 /\ FindNode(nodes, edges[k].target) # 0

\* C20: for every rule, the graph ruleToFlow returns has exactly one header
\* node, 'rule-header', and exactly one event node, 'event-node'; the
\* header has no incoming and at least one outgoing edge, the event node
\* at least one incoming and no outgoing edge; the node ids are pairwise
\* distinct and both endpoints of every edge are nodes of the graph.
C20_ProjectionStructure == fpc = "projected" => ProjectedStructure

\* processCondition makes a node for the condition at the top of the tree
TopMakesNode(c) ==
    \/ "all" \in c.shape \/ "any" \in c.shape \/ HasNot(c)
    \/ Truthy(c.fact) \/ Truthy(c.condition)

\* the structure is there whenever the rule has no conditions or the
\* condition at the top is one processCondition makes a node for
StructureWhenTopMakesNode ==
    (fpc = "projected" /\ (IsNull(rule.conditions) \/ TopMakesNode(rule.conditions)))
    => ProjectedStructure

\* the rule saved from an unfilled fact node: an edge from no node
EdgeFromNoNode ==
    /\ fpc = "projected"
    /\ rule.conditions = UnfilledFact
    /\ Len(nodes) = 2
    /\ edges = <<Edge("node-0", EventId)>>

-----------------------------------------------------------------------------
(* C21 *)

IsCondition(n) == n.type \in {"logicalOperator", "factCondition"}

\* how many edges lead from the header to the node id in the tree es
RECURSIVE DepthIn(_, _, _)
DepthIn(es, id, fuel) ==
    IF id = HeaderId \/ fuel = 0 THEN 0
    ELSE LET into == {k \in 1..Len(es) : es[k].target = id}
         IN  IF into = {} THEN 0
             ELSE 1 + DepthIn(es, es[CHOOSE k \in into : TRUE].source, fuel - 1)

Apart(a, b) == IF a >= b THEN a - b ELSE b - a

Separated(ns, es) ==
    \A i \in 1..Len(ns), j \in 1..Len(ns) :
        i # j =>
          /\ ns[i].position # ns[j].position
          /\ (IsCondition(ns[i]) /\ IsCondition(ns[j]))
             => IF DepthIn(es, ns[i].id, Len(es)) = DepthIn(es, ns[j].id, Len(es))
                THEN Apart(ns[i].position.x, ns[j].position.x) >= minHorizontalSpacing
                ELSE ns[i].position.y # ns[j].position.y
          /\ (ns[i].type = "eventNode" /\ IsCondition(ns[j]))
             => ns[i].position.y > ns[j].position.y

\* C21: with no saved layout, no two nodes of a projected graph have the
\* same position, condition nodes of one depth are at least 330 apart,
\* nodes of different depth have different heights and the event node is
\* below every condition node, in the positions of ruleToFlow and in those
\* of autoLayoutNodes.
C21_LayoutSeparation ==
    \A c \in 1..Len(projections) :
        /\ Separated(projections[c].nodes, projections[c].edges)
        /\ Separated(projections[c].layoutNodes, projections[c].edges)

\* the positions of autoLayoutNodes are separated
AutoLayoutSeparated ==
    \A c \in 1..Len(projections) :
        Separated(projections[c].layoutNodes, projections[c].edges)

\* ruleToFlow places two conditions of depth three, under different
\* parents, at the same point
SamePointTwice ==
    \E c \in 1..Len(projections) :
        \E i \in 1..Len(projections[c].nodes), j \in 1..Len(projections[c].nodes) :
            /\ i # j
            /\ IsCondition(projections[c].nodes[i])
            /\ projections[c].nodes[i].position = projections[c].nodes[j].position

-----------------------------------------------------------------------------
(* C22 *)

\* evaluate run alone on the sorted rules, from the i-th rule on
RECURSIVE RunAlone(_, _, _, _)
RunAlone(sorted, inp, i, steps) ==
    IF i > Len(sorted)
    THEN [result |-> [status |-> "returned", destination |-> FallbackDestination(sorted),
                      matchedRules |-> <<>>],
          evaluationSteps |-> steps]
    ELSE LET evaluation == evaluateRule(sorted[i], inp).value
         IN  IF evaluation.passed
             THEN [result |-> [status |-> "returned",
                               destination |-> MatchDestination(sorted[i]),
                               matchedRules |-> <<sorted[i].name>>],
                   evaluationSteps |-> Append(steps, evaluation)]
             ELSE RunAlone(sorted, inp, i + 1, Append(steps, evaluation))

Alone(c) == RunAlone(SortRules(calls[c].seen), calls[c].input, 1, <<>>)

\* C22: each of two interleaved evaluate calls on one simulator returns
\* the destination, the matched rules and the trace it returns when run
\* alone, and no call changes the rule set or the order of its rules.
C22_Reentrant ==
    \A c \in CallIds :
        /\ calls[c].pc \in {"loop", "done"} => rules = calls[c].seen
        /\ calls[c].pc = "done"
           => /\ calls[c].result = Alone(c).result
              /\ calls[c].evaluationSteps = Alone(c).evaluationSteps

\* both calls are done, on different inputs with different outcomes, the
\* second having started while the first was in its loop, over rules that
\* are not stored in order of priority
C22_Witness ==
    /\ calls[1].pc = "done" /\ calls[2].pc = "done"
    /\ calls[1].input # calls[2].input
    /\ calls[1].result.destination # calls[2].result.destination
    /\ Len(calls[1].evaluationSteps) = 2
    /\ rules # SortRules(rules)

-----------------------------------------------------------------------------
(* C23 *)

\* the fact tests of a condition tree, counted
RECURSIVE SumLeaves(_, _), LeafCount(_)
SumLeaves(cs, i) == IF i > Len(cs) THEN 0 ELSE LeafCount(cs[i]) + SumLeaves(cs, i + 1)

LeafCount(c) ==
    IF IsNull(c) THEN 0
    ELSE IF HasAll(c) THEN SumLeaves(c.all, 1)
    ELSE IF HasAny(c) THEN SumLeaves(c.any, 1)
    ELSE IF "not" \in c.shape THEN SumLeaves(c.not, 1)
    ELSE 1

\* the fact nodes the operator connected under the node id, counted along
\* the edges through logical nodes
RECURSIVE SumConnected(_, _, _), ConnectedLeaves(_, _)
SumConnected(ids, i, fuel) ==
    IF i > Len(ids) THEN 0
    ELSE ConnectedLeaves(ids[i], fuel) + SumConnected(ids, i + 1, fuel)

ConnectedLeaves(id, fuel) ==
    IF fuel = 0 \/ FindNode(nodes, id) = 0 THEN 0
    ELSE IF nodes[FindNode(nodes, id)].type = "factCondition" THEN 1
    ELSE IF nodes[FindNode(nodes, id)].type = "logicalOperator"
    THEN SumConnected(FilterTargets(nodes, Adjacency(edges, id)), 1, fuel - 1)
    ELSE 0

\* 'not' nodes of the built tree with more than one condition node under them
CrowdedNots ==
    {id \in InBuild :
        /\ nodes[FindNode(nodes, id)].type = "logicalOperator"
        /\ nodes[FindNode(nodes, id)].data.type = "not"
        /\ Len(FilterTargets(nodes, Adjacency(edges, id))) > 1}

Rebuilt == fpc = "reconstructed" /\ saved.status = "ok"

\* C23: in every rule flowToRule returns, every all / any node has at
\* least one child and every not node exactly one, and every fact node the
\* operator connected under a logical node of the tree is in the rule:
\* only logical nodes without any resolvable child are left out.
C23_PruningWellFormed ==
    Rebuilt =>
        /\ Populated(saved.rule.conditions)
        /\ LeafCount(saved.rule.conditions)
           = ConnectedLeaves(RootConditionIds[1], Len(nodes))

\* apart from the children of a 'not' node after the first, no connected
\* fact node is left out
OnlyNotDropsChildren ==
    (Rebuilt /\ CrowdedNots = {}) =>
        /\ Populated(saved.rule.conditions)
        /\ LeafCount(saved.rule.conditions)
           = ConnectedLeaves(RootConditionIds[1], Len(nodes))

\* a 'not' node with two fact nodes under it is saved with one of them
SecondChildDropped ==
    /\ Rebuilt
    /\ CrowdedNots # {}
    /\ saved.rule.conditions = NotOf(FA)

-----------------------------------------------------------------------------
(* C24 *)

\* every fact test has fact, operator and value, and a key for inputValue
RECURSIVE FilledIn(_)
FilledIn(c) ==
    IF HasAll(c) THEN \A i \in 1..Len(c.all) : FilledIn(c.all[i])
    ELSE IF HasAny(c) THEN \A i \in 1..Len(c.any) : FilledIn(c.any[i])
    ELSE IF "not" \in c.shape THEN FilledIn(c.not[1])
    ELSE /\ Truthy(c.fact) /\ Truthy(c.operator) /\ Truthy(c.value)
         /\ c.fact = "inputValue" => Truthy(c.params.key)

WellFormedRule(r) ==
    /\ validateRule(r).isValid
    /\ WellShaped(r.conditions)
    /\ FilledIn(r.conditions)

\* C24: for every well-formed rule, validateFlow reports no error on the
\* nodes and edges RuleFlow gets from ruleToFlow.
C24_ProjectionValidates ==
    (fpc = "initialised" /\ WellFormedRule(rule)) => validationResult.errors = <<>>

\* it does for well-formed rules whose condition at the top is no 'not'
ValidatesUnlessTopIsNot ==
    (fpc = "initialised" /\ WellFormedRule(rule) /\ "not" \notin rule.conditions.shape)
    => validationResult.errors = <<>>

\* the rule not(b) opens with the error about the children of NOT
TopNotInError ==
    /\ fpc = "initialised"
    /\ rule.conditions = NotOf(FB)
    /\ validationResult.errors = <<"NOT operator can only have one child condition">>

-----------------------------------------------------------------------------
(* Saving a graph that both validations accept *)

\* the two checks handleSave runs before it calls saveRule
PassesBothChecks(ns, es) ==
    Len(validateFlowStructure(ns, es)) = 0 /\ validateFlow(ns, es).isValid

\* a logical node with an edge to a condition node
HasConditionChild(ns, es, id) ==
    \E k \in 1..Len(es) :
        /\ es[k].source = id
        /\ FindNode(ns, es[k].target) # 0
        /\ IsConditionNode(ns[FindNode(ns, es[k].target)])

EveryLogicalHasConditionChild(ns, es) ==
    \A i \in 1..Len(ns) :
        ns[i].type = "logicalOperator" => HasConditionChild(ns, es, ns[i].id)

\* C25: whenever validateFlowStructure returns no errors and validateFlow
\* returns isValid = true for the graph, flowToRule returns a rule and
\* raises no error.
C25_ValidationSound ==
    (fpc \in {"saved", "failed"} /\ PassesBothChecks(nodes, edges))
        => saved.status = "ok"

\* the same for the graphs whose logical nodes all have a condition below them
SoundWhenLogicalsHaveConditions ==
    (fpc \in {"saved", "failed"} /\ PassesBothChecks(nodes, edges)
        /\ EveryLogicalHasConditionChild(nodes, edges))
        => saved.status = "ok"

\* a logical node whose only outgoing edge goes to the event node passes both
\* checks and flowToRule throws
LogicalOverEventOnly ==
    /\ fpc = "failed"
    /\ PassesBothChecks(nodes, edges)
    /\ edges = <<Edge(HeaderId, "node-0"), Edge("node-0", EventId)>>
    /\ saved.error = "Failed to build conditions from flow"

-----------------------------------------------------------------------------
(* The operators of the editor and of the engine: SpecOperators *)

\* evaluateOperator: the case labels of the switch
OperatorCases ==
    {"equal", "notEqual", "in", "notIn", "contains", "doesNotContain",
     "lessThan", "lt", "lessThanOrEqual", "lte", "greaterThan", "gt",
     "greaterThanOrEqual", "gte", "startsWith", "endsWith", "matchesPattern",
     "containsAny", "containsAll", "exists", "doesNotExist"}

\* one-letter strings: the actual and expected values handed over
Letters == {"x", "y"}

\* evaluateOperator on one-letter strings: includes, startsWith, endsWith and
\* an unguarded one-letter pattern all come to the letters being the same;
\* Number of a letter is NaN, which compares false; a letter is not an array
evaluateOperatorOnLetters(actual, operator, expected) ==
    CASE operator \in {"equal", "notEqual", "exists", "doesNotExist"}
            -> evaluateOperator(actual, operator, expected)
      [] operator \in {"contains", "startsWith", "endsWith", "matchesPattern"}
            -> actual = expected
      [] operator = "doesNotContain" -> actual # expected
      [] OTHER -> FALSE

\* the branch of the switch an operator name takes
SwitchBranch(operator) == IF operator \in OperatorCases THEN "case" ELSE "default"

\* a graph with one fact condition that uses the operator
OperatorGraphNodes(operator, expected) ==
    <<HeaderNode(BlankRule),
      Node("node-0", "factCondition", Origin,
           [NoData EXCEPT !.fact = "a", !.operator = operator, !.value = expected]),
      EventNode(BlankRule)>>

OperatorGraphEdges == <<Edge(HeaderId, "node-0"), Edge("node-0", EventId)>>

UnknownOperatorWarning(operator) == "Unknown operator \"" \o operator \o "\""

\* evaluateOperator(actual, operator, expected)
EvaluateOperator ==
    /\ operatorCheck.pc = "chosen"
    /\ operatorCheck' =
         [operatorCheck EXCEPT
            !.pc = "evaluated",
            !.branch = SwitchBranch(operatorCheck.operator),
            !.passed = evaluateOperatorOnLetters(operatorCheck.actual,
                                                 operatorCheck.operator,
                                                 operatorCheck.expected)]
    /\ UNCHANGED nonOperatorVars

\* validateFlow on a graph whose fact condition uses the operator
ValidateOperator ==
    /\ operatorCheck.pc = "evaluated"
    /\ operatorCheck' =
         [operatorCheck EXCEPT
            !.pc = "validated",
            !.warnings = validateFlow(OperatorGraphNodes(operatorCheck.operator,
                                                         operatorCheck.expected),
                                      OperatorGraphEdges).warnings]
    /\ UNCHANGED nonOperatorVars

\* the names tried: the editor's, the engine's and one that is neither's
OperatorNames == AVAILABLE_OPERATORS \cup OperatorCases \cup {"between"}

OnlyOperators ==
    /\ NoEngineInit /\ NoFlowInit /\ NoPageInit /\ NoOpInit
    /\ CounterInit /\ NoCallsInit /\ NoHistoryInit /\ AuthInit /\ NoVersionsInit

OperatorsInit ==
    /\ \E op \in OperatorNames, a \in Letters, e \in Letters :
          operatorCheck = [NoOperatorCheck EXCEPT !.pc = "chosen", !.operator = op,
                                                  !.actual = a, !.expected = e]
    /\ OnlyOperators

OperatorsNext == EvaluateOperator \/ ValidateOperator

SpecOperators == OperatorsInit /\ [][OperatorsNext]_vars

Warned(c) ==
    \E i \in 1..Len(c.warnings) : c.warnings[i] = UnknownOperatorWarning(c.operator)

\* C26: every operator in AVAILABLE_OPERATORS is implemented by
\* evaluateOperator (it does not take the unknown-operator branch), and every
\* operator evaluateOperator implements passes validateFlow without an
\* "Unknown operator" warning.
C26_OperatorVocabulary ==
    operatorCheck.pc = "validated" =>
        /\ operatorCheck.operator \in AVAILABLE_OPERATORS => operatorCheck.branch = "case"
        /\ operatorCheck.branch = "case" => ~Warned(operatorCheck)

\* the operators in both lists are evaluated by a case and not warned about,
\* and the unknown-operator branch returns false
AgreeOnSharedOperators ==
    operatorCheck.pc = "validated" =>
        /\ operatorCheck.operator \in AVAILABLE_OPERATORS \cap OperatorCases
              => operatorCheck.branch = "case" /\ ~Warned(operatorCheck)
        /\ operatorCheck.branch = "default" => ~operatorCheck.passed

\* an operator the editor offers takes the unknown-operator branch
OfferedButUnknown ==
    /\ operatorCheck.pc = "validated"
    /\ operatorCheck.operator = "greaterThanInclusive"
    /\ operatorCheck.branch = "default"
    /\ ~Warned(operatorCheck)

\* an operator the engine implements is warned about by the editor
ImplementedButWarned ==
    /\ operatorCheck.pc = "validated"
    /\ operatorCheck.operator = "lte"
    /\ operatorCheck.branch = "case"
    /\ Warned(operatorCheck)

-----------------------------------------------------------------------------
(* useHistory and the undo and redo of RuleFlow: SpecHistory *)

\* useHistory(maxHistorySize = 50), with a smaller size
MaxHistorySize == 3

\* the 100 ms timers of handleUndo and handleRedo that may be set at once
MaxResetTimers == 2

\* HistoryState, without its timestamp
HistoryState(ns, es) == [nodes |-> ns, edges |-> es]

canUndo == currentIndex > 0
canRedo == currentIndex < Len(history) - 1

\* the effect that tracks state changes, run after a render in which one of
\* its dependencies changed: its cleanup clears the timer, and it sets a new
\* one unless isHistoryUpdate (isEditing is true)
TimerAfterRender(historyUpdate, ns) == ~historyUpdate /\ Len(ns) > 0

\* setHistory's updater in pushState
PushedHistory(prev, index, newState) ==
    LET newHistory == SubSeq(prev, 1, index + 1) \o <<newState>>
    IN  IF Len(newHistory) > MaxHistorySize
        THEN SubSeq(newHistory, Len(newHistory) - MaxHistorySize + 1, Len(newHistory))
        ELSE newHistory

\* setCurrentIndex's updater in pushState
PushedIndex(prev) == IF prev + 1 < MaxHistorySize - 1 THEN prev + 1 ELSE MaxHistorySize - 1

\* the places the operator drags the fact node to
HistoryPositions == {[x |-> 100 * k, y |-> 400] : k \in 1..2}

\* the operator moves the fact node: nodes changes, the effect runs again
UserEdit ==
    /\ fpc = "editing"
    /\ \E p \in HistoryPositions :
          /\ p # nodes[2].position
          /\ nodes' = [nodes EXCEPT ![2].position = p]
    /\ debounceTimer' = TimerAfterRender(isHistoryUpdate, nodes')
    /\ unrecorded' = TRUE
    /\ lastStep' = [NoStep EXCEPT !.op = "edit"]
    /\ UNCHANGED <<history, currentIndex, isInternalUpdate, isHistoryUpdate, resetTimers>>
    /\ UNCHANGED nonHistoryVars

\* the 500 ms timer fires: pushState(nodes, edges). A push changes
\* currentIndex unless it is at its cap, pushState is then a new function
\* and the effect runs again
PushState ==
    /\ debounceTimer
    /\ IF isInternalUpdate
       THEN /\ isInternalUpdate' = FALSE
            /\ debounceTimer' = FALSE
            /\ lastStep' = [NoStep EXCEPT !.op = "skip", !.unrecorded = unrecorded]
            /\ UNCHANGED <<history, currentIndex>>
       ELSE /\ history' = PushedHistory(history, currentIndex, HistoryState(nodes, edges))
            /\ currentIndex' = PushedIndex(currentIndex)
            /\ debounceTimer' = (currentIndex' # currentIndex
                                   /\ TimerAfterRender(isHistoryUpdate, nodes))
            /\ lastStep' = [NoStep EXCEPT !.op = "push", !.unrecorded = unrecorded]
            /\ UNCHANGED isInternalUpdate
    /\ unrecorded' = FALSE
    /\ UNCHANGED <<nodes, isHistoryUpdate, resetTimers>>
    /\ UNCHANGED nonHistoryVars

\* handleUndo: setIsHistoryUpdate(true), undo(), and a timer to reset the flag
HandleUndo ==
    /\ fpc = "editing"
    /\ canUndo
    /\ resetTimers < MaxResetTimers
    /\ isHistoryUpdate' = TRUE
    /\ isInternalUpdate' = TRUE
    /\ currentIndex' = currentIndex - 1
    /\ resetTimers' = resetTimers + 1
    /\ debounceTimer' = TimerAfterRender(isHistoryUpdate', nodes)
    /\ lastStep' = [op |-> "undo", unrecorded |-> unrecorded, shown |-> nodes]
    /\ UNCHANGED <<nodes, history, unrecorded>>
    /\ UNCHANGED nonHistoryVars

\* handleRedo
HandleRedo ==
    /\ fpc = "editing"
    /\ canRedo
    /\ resetTimers < MaxResetTimers
    /\ isHistoryUpdate' = TRUE
    /\ isInternalUpdate' = TRUE
    /\ currentIndex' = currentIndex + 1
    /\ resetTimers' = resetTimers + 1
    /\ debounceTimer' = TimerAfterRender(isHistoryUpdate', nodes)
    /\ lastStep' = [op |-> IF lastStep.op = "undo" THEN "redo after undo" ELSE "redo",
                    unrecorded |-> unrecorded,
                    shown |-> IF lastStep.op = "undo" THEN lastStep.shown ELSE nodes]
    /\ UNCHANGED <<nodes, history, unrecorded>>
    /\ UNCHANGED nonHistoryVars

\* a 100 ms timer fires: setIsHistoryUpdate(false); when that changes the
\* flag the effect runs again
ResetHistoryUpdate ==
    /\ resetTimers > 0
    /\ resetTimers' = resetTimers - 1
    /\ isHistoryUpdate' = FALSE
    /\ debounceTimer' = IF isHistoryUpdate THEN TimerAfterRender(FALSE, nodes)
                        ELSE debounceTimer
    /\ UNCHANGED <<nodes, history, currentIndex, isInternalUpdate, unrecorded, lastStep>>
    /\ UNCHANGED nonHistoryVars

\* the graph the editor opens on
HistoryNodes == <<HeaderNode(BlankRule), CondNode("node-0", "fact"), EventNode(BlankRule)>>
HistoryEdges == <<Edge(HeaderId, "node-0"), Edge("node-0", EventId)>>

\* the rule prop changes: the initialising effect sets the graph and calls
\* clearHistory
RuleChanged ==
    /\ fpc = "editing"
    /\ lastStep.op # "clear"
    /\ nodes' = HistoryNodes
    /\ history' = <<>>
    /\ currentIndex' = -1
    /\ debounceTimer' = TimerAfterRender(isHistoryUpdate, nodes')
    /\ unrecorded' = FALSE
    /\ lastStep' = [NoStep EXCEPT !.op = "clear"]
    /\ UNCHANGED <<isInternalUpdate, isHistoryUpdate, resetTimers>>
    /\ UNCHANGED nonHistoryVars

HistoryInit ==
    /\ rule = BlankRule
    /\ nodes = HistoryNodes
    /\ edges = HistoryEdges
    /\ validationResult = validateFlow(nodes, edges)
    /\ saved = NotSaved
    /\ fpc = "editing"
    /\ history = <<>>
    /\ currentIndex = -1
    /\ isInternalUpdate = FALSE
    /\ isHistoryUpdate = FALSE
    /\ debounceTimer = TRUE
    /\ resetTimers = 0
    /\ unrecorded = FALSE
    /\ lastStep = NoStep
    /\ NoEngineInit /\ NoPageInit /\ NoOpInit /\ CounterInit /\ NoCallsInit
    /\ NoOperatorInit /\ AuthInit /\ NoVersionsInit

HistoryNext ==
    \/ UserEdit
    \/ PushState
    \/ HandleUndo
    \/ HandleRedo
    \/ ResetHistoryUpdate
    \/ RuleChanged

SpecHistory == HistoryInit /\ [][HistoryNext]_vars

\* the entry of the history at currentIndex
CurrentEntry == history[currentIndex + 1]

\* C27: after an undo the nodes and edges on display are those of the history
\* entry before the one that was current, and a redo right after the undo
\* shows again the nodes and edges that were on display before the undo.
C27_UndoRestores ==
    /\ lastStep.op = "undo" =>
          nodes = CurrentEntry.nodes /\ edges = CurrentEntry.edges
    /\ lastStep.op = "redo after undo" => nodes = lastStep.shown

\* undo and redo leave the graph on display as it is
UndoLeavesGraph ==
    lastStep.op \in {"undo", "redo", "redo after undo"} => nodes = lastStep.shown

\* after an undo the graph on display is not the entry the history points at
UndoShowsLaterState ==
    /\ lastStep.op = "undo"
    /\ Len(history) = MaxHistorySize
    /\ nodes = history[currentIndex + 2].nodes
    /\ nodes # CurrentEntry.nodes

\* C28: pushState skips only a push that applies an undo or redo; a change
\* made by the operator is appended right after the current entry and leaves
\* nothing to redo; and -1 <= currentIndex <= history.length - 1 <=
\* maxHistorySize - 1.
C28_HistoryRecordsEdits ==
    /\ (lastStep.op \in {"push", "skip"} /\ lastStep.unrecorded) =>
          /\ lastStep.op = "push"
          /\ CurrentEntry = HistoryState(nodes, edges)
          /\ ~canRedo
    /\ -1 <= currentIndex
    /\ currentIndex <= Len(history) - 1
    /\ Len(history) - 1 <= MaxHistorySize - 1

\* C28, the part that holds: the bounds, and a push that is not skipped
\* appends the graph and leaves nothing to redo
HistoryWithinBounds ==
    /\ -1 <= currentIndex
    /\ currentIndex <= Len(history) - 1
    /\ Len(history) - 1 <= MaxHistorySize - 1
    /\ lastStep.op = "push" => CurrentEntry = HistoryState(nodes, edges) /\ ~canRedo

\* a push of the full history and a push after an undo have both happened
PushedAtCapAndAfterUndo ==
    /\ lastStep.op = "push"
    /\ Len(history) = MaxHistorySize
    /\ currentIndex = MaxHistorySize - 1
    /\ history[1].nodes # HistoryNodes

\* the change the operator made after an undo is not recorded
EditAfterUndoSkipped ==
    /\ lastStep.op = "skip"
    /\ lastStep.unrecorded
    /\ canRedo
    /\ \A i \in 1..Len(history) : history[i].nodes # nodes

-----------------------------------------------------------------------------
(* The response interceptor of createAuthenticatedAxios: SpecAuth *)

\* if (isRefreshing): with the test left out
NeverRefreshing(flag) == FALSE

\* if (isRefreshing)
AlreadyRefreshing(flag) == flag

\* the ids in the queue
QueuedIds(q) == {q[i] : i \in 1..Len(q)}

\* how many promises of a request are in the queue
TimesQueued(q, r) == Cardinality({i \in 1..Len(q) : q[i] = r})

\* instance(request): the request interceptor puts the current token in the
\* Authorization header
Sent(req, tok) == [req EXCEPT !.pc = "in flight", !.sends = @ + 1, !.authorization = tok]

\* a request is made
SendRequest(r) ==
    /\ requests[r].pc = "idle"
    /\ requests' = [requests EXCEPT ![r] = Sent(@, token)]
    /\ UNCHANGED <<isRefreshing, failedQueue, token, authStep>>
    /\ UNCHANGED nonAuthVars

\* the response arrives and is not an error
RespondOk(r) ==
    /\ requests[r].pc = "in flight"
    /\ requests' = [requests EXCEPT ![r].pc = "resolved"]
    /\ UNCHANGED <<isRefreshing, failedQueue, token, authStep>>
    /\ UNCHANGED nonAuthVars

\* no response, or an error response other than 401: the promise of the
\* request is rejected
RespondError(r) ==
    /\ requests[r].pc = "in flight"
    /\ requests' = [requests EXCEPT ![r].pc = "rejected"]
    /\ UNCHANGED <<isRefreshing, failedQueue, token, authStep>>
    /\ UNCHANGED nonAuthVars

\* a 401 response: a request already retried is rejected; otherwise it is
\* marked, and queued when a refresh is under way, or else it starts one
Respond401(r) ==
    /\ requests[r].pc = "in flight"
    /\ IF requests[r].retry
       THEN /\ requests' = [requests EXCEPT ![r].pc = "rejected"]
            /\ UNCHANGED <<isRefreshing, failedQueue>>
       ELSE IF AlreadyRefreshing(isRefreshing)
       THEN /\ requests' = [requests EXCEPT ![r].pc = "queued", ![r].retry = TRUE]
            /\ failedQueue' = Append(failedQueue, r)
            /\ UNCHANGED isRefreshing
       ELSE /\ requests' = [requests EXCEPT ![r].pc = "refreshing", ![r].retry = TRUE]
            /\ isRefreshing' = TRUE
            /\ UNCHANGED failedQueue
    /\ UNCHANGED <<token, authStep>>
    /\ UNCHANGED nonAuthVars

\* processQueue(null, token): every queued promise resolves and its request is
\* sent again
ResolveQueue(reqs, q, tok) ==
    [r \in RequestIds |->
        IF r \in QueuedIds(q)
        THEN Sent([reqs[r] EXCEPT !.settled = @ + TimesQueued(q, r)], tok)
        ELSE reqs[r]]

\* processQueue(error): every queued promise rejects
RejectQueue(reqs, q) ==
    [r \in RequestIds |->
        IF r \in QueuedIds(q)
        THEN [reqs[r] EXCEPT !.settled = @ + TimesQueued(q, r), !.pc = "rejected"]
        ELSE reqs[r]]

\* refreshToken resolves and getToken gives the new token: the queue is
\* processed, the request is sent again, and finally isRefreshing = false
RefreshSucceeds(r) ==
    /\ requests[r].pc = "refreshing"
    /\ token' = token + 1
    /\ requests' = [ResolveQueue(requests, failedQueue, token') EXCEPT ![r] = Sent(@, token')]
    /\ failedQueue' = <<>>
    /\ isRefreshing' = FALSE
    /\ authStep' = [op |-> "refreshed", queue |-> failedQueue]
    /\ UNCHANGED nonAuthVars

\* refreshToken rejects, or getToken gives no token: the queue is processed
\* with the error, the request is rejected, and finally isRefreshing = false
RefreshFails(r) ==
    /\ requests[r].pc = "refreshing"
    /\ requests' = [RejectQueue(requests, failedQueue) EXCEPT ![r].pc = "rejected"]
    /\ failedQueue' = <<>>
    /\ isRefreshing' = FALSE
    /\ authStep' = [op |-> "refresh failed", queue |-> failedQueue]
    /\ UNCHANGED token
    /\ UNCHANGED nonAuthVars

AuthOnlyInit ==
    /\ AuthInit
    /\ NoEngineInit /\ NoFlowInit /\ NoPageInit /\ NoOpInit /\ CounterInit /\ NoCallsInit
    /\ NoOperatorInit /\ NoHistoryInit /\ NoVersionsInit

AuthNext ==
    \E r \in RequestIds :
        \/ SendRequest(r)
        \/ RespondOk(r)
        \/ RespondError(r)
        \/ Respond401(r)
        \/ RefreshSucceeds(r)
        \/ RefreshFails(r)

SpecAuth == AuthOnlyInit /\ [][AuthNext]_vars

\* the requests that wait for refreshToken
Refreshers == {r \in RequestIds : requests[r].pc = "refreshing"}

\* what the last refresh that settled left behind: the requests of its queue
\* were settled once, and sent again with the new token or rejected
QueueSettled ==
    \A q \in QueuedIds(authStep.queue) :
        /\ requests[q].settled = 1
        /\ requests[q].sends <= 2
        /\ authStep.op = "refreshed" =>
              /\ requests[q].sends = 2
              /\ requests[q].pc = "in flight" => requests[q].authorization >= 2
        /\ authStep.op = "refresh failed" => requests[q].pc = "rejected"

\* C29: while a refresh is in flight no second one starts and the other
\* requests that fail with 401 are queued; when it settles every queued request
\* has been settled exactly once (sent again with the new token, or rejected),
\* the queue is empty and isRefreshing is false; no request is retried more
\* than once.
C29_SingleFlightRefresh ==
    /\ Cardinality(Refreshers) <= 1
    /\ isRefreshing <=> Refreshers # {}
    /\ \A r \in RequestIds :
          /\ requests[r].pc = "queued" <=> r \in QueuedIds(failedQueue)
          /\ requests[r].pc = "queued" => isRefreshing /\ requests[r].settled = 0
          /\ requests[r].sends <= 2
          /\ requests[r].settled <= 1
    /\ Len(failedQueue) = Cardinality(QueuedIds(failedQueue))
    /\ ~isRefreshing => failedQueue = <<>>
    /\ QueueSettled

\* a refresh settled with two requests in the queue, which were sent again
\* with the new token
C29_Witness ==
    /\ authStep.op = "refreshed"
    /\ Len(authStep.queue) = 2
    /\ \A q \in QueuedIds(authStep.queue) :
          /\ requests[q].pc = "in flight"
          /\ requests[q].sends = 2
          /\ requests[q].authorization = token
          /\ requests[q].settled = 1
    /\ ~isRefreshing
    /\ failedQueue = <<>>

-----------------------------------------------------------------------------
(* GenesysService: the versions in the data table: SpecVersions *)

StoredKeys(t) == {k \in VersionKeys : t[k].state = "stored"}
ActiveKeys(t) == {k \in StoredKeys(t) : t[k].isActive}

\* uuidv4(): a key never used before
FreshKey(t) == CHOOSE k \in VersionKeys :
                  t[k].state = "unused" /\ \A j \in VersionKeys : j < k => t[j].state # "unused"

\* deactivateRule, and the deactivating put of activateVersion
Deactivated(t, keys) == [k \in VersionKeys |-> IF k \in keys THEN [t[k] EXCEPT !.isActive = FALSE]
                                                ELSE t[k]]

Finished(op, ok, key) == [NoVersionCall EXCEPT !.op = op, !.ok = ok, !.key = key]

\* deployRules(rulesConfig, description). getActiveRules returns null when its
\* read fails; each of the other calls to the platform may fail, and the
\* error leaves the table as the calls before it made it
DeployRules ==
    /\ \E k \in VersionKeys : dataTable[k].state = "unused"
    /\ \E startFails \in BOOLEAN, readFails \in BOOLEAN, deactivateFails \in BOOLEAN,
          postFails \in BOOLEAN, found \in ActiveKeys(dataTable) \cup {0} :
          \* getActiveRules: the first active row of the page, or null
          /\ found = 0 <=> (readFails \/ ActiveKeys(dataTable) = {})
          /\ LET key == FreshKey(dataTable)
                 nextVersion == (IF found = 0 THEN 0 ELSE dataTable[found].version) + 1
                 deactivated == IF found = 0 THEN dataTable
                                ELSE Deactivated(dataTable, {found})
                 ruleEntry == [state |-> "stored", isActive |-> TRUE, version |-> nextVersion]
                 call == [Finished("deploy", FALSE, key) EXCEPT
                            !.readFailed = readFails,
                            !.activeBefore = Cardinality(ActiveKeys(dataTable)),
                            !.deployedOnce = lastCall.deployedOnce]
             IN  IF startFails \/ (found # 0 /\ deactivateFails)
                 THEN dataTable' = dataTable /\ lastCall' = call
                 ELSE IF postFails
                 THEN dataTable' = deactivated /\ lastCall' = call
                 ELSE /\ dataTable' = [deactivated EXCEPT ![key] = ruleEntry]
                      /\ lastCall' = [call EXCEPT !.ok = TRUE, !.deployedOnce = TRUE]
    /\ UNCHANGED nonVersionVars

\* activateVersion(key): the other active rows are deactivated one by one,
\* then the target is activated; a put that fails ends the call
ActivateVersion(key) ==
    /\ \E startFails \in BOOLEAN, activateFails \in BOOLEAN,
          done \in SUBSET (ActiveKeys(dataTable) \ {key}) :
          LET others == ActiveKeys(dataTable) \ {key}
              call == [Finished("activate", FALSE, key) EXCEPT
                         !.activeBefore = Cardinality(ActiveKeys(dataTable)),
                         !.deployedOnce = lastCall.deployedOnce]
          IN  IF startFails \/ dataTable[key].state # "stored"
              THEN done = {} /\ dataTable' = dataTable /\ lastCall' = call
              ELSE IF done # others \/ activateFails
              THEN dataTable' = Deactivated(dataTable, done) /\ lastCall' = call
              ELSE /\ dataTable' = [Deactivated(dataTable, others) EXCEPT ![key].isActive = TRUE]
                   /\ lastCall' = [call EXCEPT !.ok = TRUE]
    /\ UNCHANGED nonVersionVars

\* deleteVersions(keys), from the i-th key on: a row that cannot be read or
\* deleted goes to errors, an active row is skipped
RECURSIVE DeleteFrom(_, _, _, _, _)
DeleteFrom(t, keys, fails, i, results) ==
    IF i > Len(keys) THEN [table |-> t, results |-> results]
    ELSE LET key == keys[i]
         IN  IF fails[i] \/ t[key].state # "stored"
             THEN DeleteFrom(t, keys, fails, i + 1,
                             [results EXCEPT !.errors = Append(@, key)])
             ELSE IF t[key].isActive
             THEN DeleteFrom(t, keys, fails, i + 1,
                             [results EXCEPT !.skipped = Append(@, key)])
             ELSE DeleteFrom([t EXCEPT ![key].state = "deleted"], keys, fails, i + 1,
                             [results EXCEPT !.deleted = Append(@, key)])

\* the lists of keys handed to deleteVersions
KeyLists == {<<>>} \cup {<<k>> : k \in VersionKeys}
                   \cup {p \in VersionKeys \X VersionKeys : p[1] # p[2]}

DeleteVersions(keys) ==
    /\ \E fails \in [1..Len(keys) -> BOOLEAN] :
          LET out == DeleteFrom(dataTable, keys, fails, 1, NoResults)
          IN  /\ dataTable' = out.table
              /\ lastCall' = [Finished("delete", TRUE, 0) EXCEPT
                                !.results = out.results,
                                !.activeBefore = Cardinality(ActiveKeys(dataTable)),
                                !.deletedActive =
                                   \E i \in 1..Len(out.results.deleted) :
                                      out.results.deleted[i] \in ActiveKeys(dataTable),
                                !.deployedOnce = lastCall.deployedOnce]
    /\ UNCHANGED nonVersionVars

VersionsInit ==
    /\ NoVersionsInit
    /\ NoEngineInit /\ NoFlowInit /\ NoPageInit /\ NoOpInit /\ CounterInit /\ NoCallsInit
    /\ NoOperatorInit /\ NoHistoryInit /\ AuthInit

VersionsNext ==
    \/ DeployRules
    \/ \E key \in VersionKeys : ActivateVersion(key)
    \/ \E keys \in KeyLists : DeleteVersions(keys)

SpecVersions == VersionsInit /\ [][VersionsNext]_vars

\* C30: once a first version has been deployed, after every deployRules,
\* activateVersion or deleteVersions call, succeeded or failed, exactly one
\* stored version is active; deleteVersions never deletes the active version;
\* and a successful deployRules leaves the new version as the only active one.
C30_ExactlyOneActive ==
    /\ lastCall.deployedOnce => Cardinality(ActiveKeys(dataTable)) = 1
    /\ ~lastCall.deletedActive
    /\ (lastCall.op = "deploy" /\ lastCall.ok) => ActiveKeys(dataTable) = {lastCall.key}

\* what holds: deleteVersions deletes no active version and leaves the active
\* versions as they are; a call that succeeds leaves its version active; and a
\* successful deployRules that read the table, or activateVersion, leaves its
\* version the only active one when at most one was active before
ActiveVersionKept ==
    /\ ~lastCall.deletedActive
    /\ lastCall.op = "delete" => Cardinality(ActiveKeys(dataTable)) = lastCall.activeBefore
    /\ (lastCall.op \in {"deploy", "activate"} /\ lastCall.ok) => lastCall.key \in ActiveKeys(dataTable)
    /\ (lastCall.op = "deploy" /\ lastCall.ok /\ ~lastCall.readFailed /\ lastCall.activeBefore <= 1)
          => ActiveKeys(dataTable) = {lastCall.key}
    /\ (lastCall.op = "activate" /\ lastCall.ok) => ActiveKeys(dataTable) = {lastCall.key}

\* a deployRules that fails at the post, after the active version was
\* deactivated, leaves no active version
NoActiveAfterFailedDeploy ==
    /\ lastCall.op = "deploy"
    /\ ~lastCall.ok
    /\ lastCall.deployedOnce
    /\ lastCall.activeBefore = 1
    /\ StoredKeys(dataTable) # {}
    /\ ActiveKeys(dataTable) = {}

\* a deployRules whose read of the active version failed leaves two active
\* versions
TwoActiveAfterDeploy ==
    /\ lastCall.op = "deploy"
    /\ lastCall.ok
    /\ lastCall.readFailed
    /\ Cardinality(ActiveKeys(dataTable)) = 2

\* deleteVersions skipped the active version and deleted another
DeleteSkippedActive ==
    /\ lastCall.op = "delete"
    /\ Len(lastCall.results.skipped) = 1
    /\ Len(lastCall.results.deleted) = 1
    /\ Cardinality(ActiveKeys(dataTable)) = 1
====
